---- MODULE Spec2Model ----
(***************************************************************************)
(* Model of basic-formatting-utils (bfu.js) and its TypeScript entry      *)
(* point: the depth-limited renderer that turns a JavaScript value into   *)
(* nested collapsible HTML tables.                                         *)
(*                                                                         *)
(* A JavaScript string is modelled as a sequence of tokens (a chunked      *)
(* string): single characters where the code looks inside the string      *)
(* (keys, titles, node ids), fixed chunks for tag names, attributes and    *)
(* literals.  Converting a Symbol to a string raises TypeError in           *)
(* JavaScript; the renderer has no try/catch and every string it builds   *)
(* ends up in the returned fragment, so the exception is modelled as a     *)
(* poison token that makes the whole call raise.                           *)
(***************************************************************************)
EXTENDS Integers, Sequences, FiniteSets, TLC

VARIABLES heap, depth_limit, suppress_fns, call, result, renders, rows, stack, pc, memo, padding, dom

vars == <<heap, depth_limit, suppress_fns, call, result, renders, rows, stack, pc, memo, padding,
          dom>>

(***************************************************************************)
(* Bounds of the model                                                     *)
(***************************************************************************)
\* largest whole depth limit passed to set_depth_limit
MaxDepthLimit == 4
\* number of nested objects in the chain {a: {b: {c: ...}}}
ChainLen == 7
\* number of nested calls of obj_to_str the call stack has room for
StackLimit == 6
\* largest number of elements of an array that push and unshift add to
MaxArrayLen == 4

(***************************************************************************)
(* Tokens and strings                                                      *)
(***************************************************************************)
Ch(c)     == [k |-> "ch",    v |-> c]
Txt(s)    == [k |-> "txt",   v |-> s]
Open(tag) == [k |-> "open",  v |-> tag]
Attr(a)   == [k |-> "attr",  v |-> a]
Gt        == [k |-> "gt",    v |-> ">"]
Close(tag) == [k |-> "close", v |-> tag]
Poison    == [k |-> "throw", v |-> "TypeError"]

\* the characters of keys and titles, in UTF-16 code unit order
Chars == <<" ", "-", "0", "1", "2", "3", "4", "5", "6", "7", "8", "9",
           "A", "B", "O", "a", "b", "c", "d", "e", "f", "g", "h", "i", "j", "k",
           "l", "m", "n", "o", "p", "r", "s", "t", "u", "x", "z">>

Ord(c) == CHOOSE i \in 1..Len(Chars) : Chars[i] = c

\* String.prototype.toLowerCase on one character
LowerChar(c) == CASE c = "A" -> "a" [] c = "B" -> "b" [] c = "O" -> "o" [] OTHER -> c

\* the string with the characters cs, one token each
Lit(cs) == [i \in 1..Len(cs) |-> Ch(cs[i])]

Range(f) == {f[i] : i \in DOMAIN f}

RECURSIVE Concat(_)
\* concatenation of a sequence of strings
Concat(ss) == IF ss = <<>> THEN <<>> ELSE Head(ss) \o Concat(Tail(ss))

(***************************************************************************)
(* JavaScript values: t is the tag Object.prototype.toString reports, ref *)
(* the heap address of a container (0 for a primitive), s the string the   *)
(* value converts to.                                                      *)
(***************************************************************************)
V(t, ref, s) == [t |-> t, ref |-> ref, s |-> s]

MkStr(toks) == V("String", 0, toks)
Null        == V("Null", 0, <<Txt("null")>>)
Undefined   == V("Undefined", 0, <<Txt("undefined")>>)
Num(d)      == V("Number", 0, <<Ch(d)>>)
NaN         == V("Number", 0, <<Txt("NaN")>>)
BigInt7     == V("BigInt", 0, <<Ch("7")>>)
True        == V("Boolean", 0, <<Txt("true")>>)
Sym         == V("Symbol", 0, <<>>)
Fn          == V("Function", 0, <<Txt("function f(){}")>>)
GenFn       == V("GeneratorFunction", 0, <<Txt("function* g(){}")>>)
AsyncFn     == V("AsyncFunction", 0, <<Txt("async function h(){}")>>)
Date0       == V("Date", 0, <<Txt("Thu Jan 01 1970")>>)
Key(cs)     == MkStr(Lit(cs))

\* the source texts of the functions of the fixture
FnSources == {Fn.s[1], GenFn.s[1], AsyncFn.s[1]}

(***************************************************************************)
(* The value graph handed to the renderer: heap maps an address to a       *)
(* container, whose kids are its entries in insertion order (an Array's    *)
(* in index order, a Set's elements as keys).  The fixture holds every     *)
(* container kind, empty and nonempty, every kind of child, chains         *)
(* deeper than any depth limit, and cycles.                                *)
(***************************************************************************)
P(key, val) == [key |-> key, val |-> val]

ObjS == <<Txt("[object Object]")>>
MapS == <<Txt("[object Map]")>>
SetS == <<Txt("[object Set]")>>

Node(t, kids, s) == [t |-> t, kids |-> kids, s |-> s]
Obj(kids)   == Node("Object", kids, ObjS)
Map(kids)   == Node("Map", kids, MapS)
Set(els)    == Node("Set", [i \in 1..Len(els) |-> P(els[i], Null)], SetS)
Digits      == <<"0", "1", "2", "3", "4", "5", "6", "7", "8", "9">>
Arr(els, s) == Node("Array", [i \in 1..Len(els) |-> P(Num(Digits[i]), els[i])], s)

RObj(n) == V("Object", n, ObjS)
RMap(n) == V("Map", n, MapS)
RSet(n) == V("Set", n, SetS)
RArr(n, s) == V("Array", n, s)

\* the line separator of a stack trace
NL == Ch("\n")

StackKey   == Key(<<"s", "t", "a", "c", "k">>)
MessageKey == Key(<<"m", "e", "s", "s", "a", "g", "e">>)

\* the stack of an Error: three lines
Stack3 == MkStr(<<Txt("Error: m"), NL, Txt("    at f (a.js:1:1)"), NL, Txt("    at a.js:2:1")>>)

\* an Error object: kids are its enumerable own properties, own all its own
\* properties in the order Object.getOwnPropertyNames lists them
ErrNode(kids, own) ==
  [t |-> "Error", kids |-> kids, s |-> <<Txt("Error: m")>>, own |-> own,
   proto |-> <<P(Key(<<"n", "a", "m", "e">>), MkStr(<<Txt("Error")>>)), P(MessageKey, Key(<<>>))>>]

\* Object.create(proto) with the own enumerable properties kids
Derived(kids, proto) == [t |-> "Object", kids |-> kids, s |-> ObjS, proto |-> proto]

Fixed ==
  << Arr(<<>>, <<>>),                                             \* 1  []
     Obj(<<>>),                                                   \* 2  {}
     Map(<<>>),                                                   \* 3  new Map()
     Set(<<>>),                                                   \* 4  new Set()
     Arr(<<Num("1"), Num("2"), Num("3")>>, <<Txt("1,2,3")>>),     \* 5  [1,2,3]
     Obj(<<P(Key(<<"a">>), Num("1"))>>),                          \* 6  {a: 1}
     Obj(<<P(Key(<<"b">>), Num("2")), P(Key(<<"B">>), Num("1")),
           P(Key(<<"a", "b">>), Num("3")), P(Key(<<"a">>), Num("3"))>>),
                                                                  \* 7  {b:2, B:1, ab:3, a:3}
     Set(<<Num("1"), Num("2")>>),                                 \* 8  new Set([1,2])
     Map(<<P(Key(<<"z">>), Num("1")), P(Key(<<"a">>), Num("2"))>>),
                                                                  \* 9  new Map([["z",1],["a",2]])
     Obj(<<P(Key(<<"s">>), RObj(10)), P(Key(<<"n">>), Num("1"))>>),
                                                                  \* 10 o = {s: o, n: 1}
     Arr(<<RArr(11, <<Txt(",2")>>), Num("2")>>, <<Txt(",2")>>),   \* 11 a = [a, 2]
     Obj(<<P(Key(<<"k">>), Num("1")), P(Key(<<"g">>), GenFn), P(Key(<<"f">>), Fn)>>),
                                                                  \* 12 {k: 1, g: function*, f: function}
     Obj(<<P(Key(<<"h">>), AsyncFn)>>),                           \* 13 {h: async function}
     Obj(<<P(Key(<<"n">>), Null), P(Key(<<"u">>), Undefined), P(Key(<<"x">>), NaN),
           P(Key(<<"d">>), Date0), P(Key(<<"i">>), BigInt7), P(Key(<<"t">>), True)>>),
                                                                  \* 14 {n: null, u: undefined, ...}
     Obj(<<P(Key(<<"s">>), Sym)>>),                               \* 15 {s: Symbol()}
     Arr(<<Fn, Num("1")>>, <<Txt("function f(){},1")>>),          \* 16 [function, 1]
     Map(<<P(Fn, Num("1"))>>),                                    \* 17 new Map([[function, 1]])
     Map(<<P(Key(<<"k">>), Fn)>>),                                \* 18 new Map([["k", function]])
     Set(<<Fn, Num("2")>>),                                       \* 19 new Set([function, 2])
     Set(<<RObj(6)>>),                                            \* 20 new Set([{a: 1}])
     Map(<<P(RObj(6), RArr(5, <<Txt("1,2,3")>>))>>),              \* 21 new Map([[{a: 1}, [1,2,3]]])
     Obj(<<P(Key(<<"x">>), RArr(23, <<Txt("[object Map]")>>)), P(Key(<<"e">>), RObj(2)),
           P(Key(<<"a">>), RArr(1, <<>>)), P(Key(<<"m">>), RMap(3)),
           P(Key(<<"s">>), RSet(4))>>),                           \* 22 {x: [Map], e: {}, a: [], m: Map(0), s: Set(0)}
     Arr(<<RMap(24)>>, <<Txt("[object Map]")>>),                  \* 23 [new Map([["k", Set]])]
     Map(<<P(Key(<<"k">>), RSet(25))>>),                          \* 24 new Map([["k", new Set([1, {a: 1}])]])
     Set(<<Num("1"), RObj(6)>>),                                  \* 25 new Set([1, {a: 1}])
     Node("process", <<P(Key(<<"p">>), Num("1")), P(Key(<<"e">>), RObj(6))>>,
          <<Txt("[object process]")>>),                           \* 26 process-like singleton
     Map(<<P(Sym, Num("1"))>>),                                   \* 27 new Map([[Symbol(), 1]])
     Obj(<<P(Key(<<"f">>), Fn)>>),                                \* 28 {f: function}
     Obj(<<P(Key(<<"p">>), RObj(10)), P(Key(<<"x">>), RArr(11, <<Txt(",2")>>))>>),
                                                                  \* 29 {p: o, x: a}
     Obj(<<P(Key(<<"a">>), RObj(6)), P(Key(<<"A">>), RArr(5, <<Txt("1,2,3")>>))>>),
                                                                  \* 30 {a: {a: 1}, A: [1,2,3]}
     Obj(<<P(Key(<<"a">>), RObj(32))>>),                          \* 31 {a: {b: {c: {d: 1}}}}
     Obj(<<P(Key(<<"b">>), RObj(33))>>),                          \* 32 {b: {c: {d: 1}}}
     Obj(<<P(Key(<<"c">>), RObj(34))>>),                          \* 33 {c: {d: 1}}
     Obj(<<P(Key(<<"d">>), Num("1"))>>),                          \* 34 {d: 1}
     ErrNode(<<>>, <<P(StackKey, Stack3), P(MessageKey, Key(<<"m">>))>>),
                                                                  \* 35 new Error("m")
     ErrNode(<<P(Key(<<"c", "o", "d", "e">>), Num("1")), P(Key(<<"c", "a", "u", "s", "e">>), RObj(6))>>,
             <<P(StackKey, Stack3), P(MessageKey, Key(<<"m">>)),
               P(Key(<<"c", "o", "d", "e">>), Num("1")), P(Key(<<"c", "a", "u", "s", "e">>), RObj(6))>>),
                                                                  \* 36 an Error with code: 1 and cause: {a: 1}
     Obj(<<P(MessageKey, Key(<<"m">>)), P(StackKey, Key(<<"a">>))>>),
                                                                  \* 37 {message: "m", stack: "a"}
     Obj(<<P(StackKey, MkStr(<<Ch("a"), NL, NL, Ch("b"), NL>>)), P(MessageKey, Key(<<"m">>)),
           P(Key(<<"a">>), Num("1"))>>),                          \* 38 {stack: "a\n\nb\n", message: "m", a: 1}
     Derived(<<>>, <<P(MessageKey, Key(<<"m">>)), P(StackKey, MkStr(<<Ch("a"), NL, Ch("b")>>))>>),
                                                                  \* 39 Object.create({message: "m", stack: "a\nb"})
     Obj(<<P(StackKey, Key(<<"s">>)), P(MessageKey, Key(<<>>))>>),
                                                                  \* 40 {stack: "s", message: ""}
     Node("global", <<P(Key(<<"g">>), Num("1")), P(Key(<<"h">>), Num("2"))>>,
          <<Txt("[object global]")>>),                            \* 41 global-like singleton
     Obj(<<P(Key(<<"b">>), RObj(6)), P(Key(<<"a">>), Sym)>>)      \* 42 {b: {a: 1}, a: Symbol()}
  >>

ChainBase == Len(Fixed)
ChainKeys == <<"a", "b", "c", "d", "e", "f", "g", "h", "i", "j">>

\* {a: {b: {c: ... {k: 1}}}}, ChainLen objects deep
Chain == [i \in 1..ChainLen |->
            Obj(<<P(Key(<<ChainKeys[i]>>),
                    IF i < ChainLen THEN RObj(ChainBase + i + 1) ELSE Num("1"))>>)]

Heap0 == Fixed \o Chain

Addrs == 1..Len(Heap0)

\* the value that refers to the container at address n
ValOf(h, n) == V(h[n].t, n, h[n].s)

Scalars == {Num("1"), NaN, BigInt7, True, Null, Undefined, Sym, Fn, GenFn, AsyncFn,
            Date0, Key(<<"x">>)}

\* the values a caller hands to the entry points
Roots == Scalars \cup {ValOf(Heap0, n) : n \in Addrs}

Titles == {<<"t">>, <<"A", " ", "b">>}

(***************************************************************************)
(* Type classifier                                                         *)
(***************************************************************************)
typeOf(x) == x.t

isNull(x)      == typeOf(x) = "Null"
isUndefined(x) == typeOf(x) = "Undefined"
isNumber(x)    == typeOf(x) = "Number"
isBigInt(x)    == typeOf(x) = "BigInt"
isArray(x)     == typeOf(x) = "Array"
isMap(x)       == typeOf(x) = "Map"
isSet(x)       == typeOf(x) = "Set"
isFn(x)        == typeOf(x) = "Function"
isGenFn(x)     == typeOf(x) = "GeneratorFunction"
isJsObject(x)  == typeOf(x) = "Object"
isNodeJsProcess(x) == typeOf(x) = "process"
isNodeJsGlobal(x)  == typeOf(x) = "global"

isNullOrUndef(x) == isNull(x) \/ isUndefined(x)
isNumeric(x)     == isNumber(x) \/ isBigInt(x)
isFunction(x)    == isFn(x) \/ isGenFn(x)
isObject(x)      == isJsObject(x) \/ isNodeJsProcess(x) \/ isNodeJsGlobal(x)

\* the keys of expandableTypesMap when Set has no entry
expandableTypesMap_noSet == {"Array", "Map", "Object", "process", "global"}

\* the keys of expandableTypesMap
expandableTypesMap == {"Array", "Map", "Set", "Object", "process", "global"}

isExpandable(x) == typeOf(x) \in expandableTypesMap

\* number of entries of an expandable value, 0 for anything else
sizeOf(h, obj) == IF typeOf(obj) \in expandableTypesMap THEN Len(h[obj.ref].kids) ELSE 0

\* columnHeadings with no entry for Set
columnHeadings_noSet(t) == CASE t = "Array" -> "Index"
                             [] t = "Map"   -> "Key"
                             [] OTHER       -> "Property"

columnHeadings(t) == CASE t = "Array" -> "Index"
                       [] t = "Map"   -> "Key"
                       [] t = "Set"   -> "Key"
                       [] OTHER       -> "Property"

(***************************************************************************)
(* String conversions of the language                                      *)
(***************************************************************************)
\* `${x}`: the string a value converts to; a Symbol raises TypeError
Str(x) == IF typeOf(x) = "Symbol" THEN <<Poison>> ELSE x.s

\* the conversion Array.prototype.join applies to one element
JoinEl(x) == IF isNullOrUndef(x) THEN <<>> ELSE Str(x)

RECURSIVE JoinWith(_, _)
\* Array.prototype.join of an array of strings
JoinWith(ss, sep) == IF ss = <<>> THEN <<>>
                     ELSE IF Len(ss) = 1 THEN Head(ss)
                     ELSE Head(ss) \o sep \o JoinWith(Tail(ss), sep)

LowerTxt(t) == CASE t = "[object Object]"  -> "[object object]"
                 [] t = "[object Map]"     -> "[object map]"
                 [] t = "[object Set]"     -> "[object set]"
                 [] t = "NaN"              -> "nan"
                 [] t = "Thu Jan 01 1970"  -> "thu jan 01 1970"
                 [] t = " (Functions suppressed)" -> " (functions suppressed)"
                 [] t = "-(Functions-suppressed)" -> "-(functions-suppressed)"
                 [] t = "(Functions-suppressed)"  -> "(functions-suppressed)"
                 [] OTHER -> t

LowerTok(tok) == CASE tok.k = "ch"  -> Ch(LowerChar(tok.v))
                   [] tok.k = "txt" -> Txt(LowerTxt(tok.v))
                   [] OTHER         -> tok

\* String.prototype.toLowerCase
toLowerCase(str) == [i \in 1..Len(str) |-> LowerTok(str[i])]

RECURSIVE StrLess(_, _)
\* a < b for strings: the order Array.prototype.sort uses by default
StrLess(a, b) == IF b = <<>> THEN FALSE
                 ELSE IF a = <<>> THEN TRUE
                 ELSE IF Ord(a[1].v) < Ord(b[1].v) THEN TRUE
                 ELSE IF Ord(a[1].v) > Ord(b[1].v) THEN FALSE
                 ELSE StrLess(Tail(a), Tail(b))

\* the position x = ks[j] takes when ks is sorted: after every string that is
\* smaller and after the equal ones that stood before it (the sort is stable)
Rank(ks, j) ==
  1 + Cardinality({m \in 1..Len(ks) :
                     \/ StrLess(ks[m].s, ks[j].s)
                     \/ (~StrLess(ks[j].s, ks[m].s) /\ m < j)})

\* Array.prototype.sort of an array of strings: ascending by code units
sort(ks) == [i \in 1..Len(ks) |-> ks[CHOOSE j \in 1..Len(ks) : Rank(ks, j) = i]]

\* Object.keys(obj): the property names in insertion order
ObjectKeys(h, obj) == [i \in 1..Len(h[obj.ref].kids) |-> h[obj.ref].kids[i].key]

\* obj[prop_name]
GetProp(h, obj, prop_name) ==
  LET kids == h[obj.ref].kids
      i    == CHOOSE j \in 1..Len(kids) : kids[j].key = prop_name
  IN  kids[i].val

(***************************************************************************)
(* Element builder                                                         *)
(***************************************************************************)
emptyElements == {"area", "base", "basefont", "br", "col", "frame", "hr", "img",
                  "input", "isindex", "link", "meta", "param", "command", "keygen", "source"}

isEmptyElement(tag_name) == tag_name \in emptyElements

\* an opening tag with its properties
make_tag(tag_name, props_array) ==
  <<Open(tag_name)>>
    \o (IF Len(props_array) = 0 THEN <<>> ELSE <<Txt(" ")>> \o JoinWith(props_array, <<Txt(" ")>>))
    \o <<Gt>>

\* an element: content and closing tag are left out for an empty element and
\* for null or undefined content
as_html_el(tag_name, propsArray, val) ==
  make_tag(tag_name, propsArray)
    \o (IF isEmptyElement(tag_name) \/ isNullOrUndef(val) THEN <<>>
        ELSE Str(val) \o <<Close(tag_name)>>)

as_div(p, val)    == as_html_el("div", p, val)
as_table(p, val)  == as_html_el("table", p, val)
as_tr(p, val)     == as_html_el("tr", p, val)
as_td(p, val)     == as_html_el("td", p, val)
as_th(p, val)     == as_html_el("th", p, val)
as_h2(p, val)     == as_html_el("h2", p, val)
as_img(p, val)    == as_html_el("img", p, val)
as_button(p, val) == as_html_el("button", p, val)
as_style(p, val)  == as_html_el("style", p, val)
as_script(p, val) == as_html_el("script", p, val)

td_class == << <<Attr("class='bfu-td'")>> >>
th_class == << <<Attr("class='bfu-th'")>> >>

(***************************************************************************)
(* Expand and collapse controls                                            *)
(***************************************************************************)
arrow_right == as_img(<< <<Attr("name='bfu-arrow-right-icon'")>> >>, Undefined)
arrow_down  == as_img(<< <<Attr("name='bfu-arrow-down-icon'")>> >>, Undefined)

arrow_content(obj_type, arrow_type) ==
  obj_type \o as_button(<< <<Attr("type='button'")>> >>, MkStr(arrow_type))

arrow_properties(name, direction, action, hidden) ==
  << <<Attr("class='bfu-arrow-"), Txt(direction), Attr("'")>>,
     <<Attr("id='")>> \o name \o <<Attr("-arrow-"), Txt(direction), Attr("'")>>,
     <<Attr("onclick=\""), Txt(action), Attr("('")>> \o name \o <<Attr("')\"")>>,
     IF hidden THEN <<Attr("style='display:none'")>> ELSE <<>> >>

expand_button_div(obj_name, obj_type) ==
  as_div(arrow_properties(obj_name, "right", "expand", FALSE),
         MkStr(arrow_content(obj_type, arrow_right)))

collapse_button_div(obj_name, obj_type) ==
  as_div(arrow_properties(obj_name, "down", "collapse", TRUE),
         MkStr(arrow_content(obj_type, arrow_down)))

(***************************************************************************)
(* Table renderer.  c is the configuration a render pass reads: the heap   *)
(* c.h, the depth limit c.lim and the suppress-functions flag c.sup.       *)
(* A depth limit is a value with tag t; twice holds two times its          *)
(* magnitude, so that a limit such as 1.5 is representable, and cls tells *)
(* a finite number from NaN.                                               *)
(***************************************************************************)
Lim(t, twice, cls) == [t |-> t, twice |-> twice, cls |-> cls]

\* a renderer that expands one level more: depth <= depth_limit
below_limit_le(depth, lim) == 2 * depth <= lim.twice

\* depth < depth_limit
below_limit(depth, lim) == 2 * depth < lim.twice

\* suppress_fns && isFunction(prop_value)
row_suppressed(sup, prop_value) == sup /\ isFunction(prop_value)

\* make_table_hdr_row that gives every table the three columns
make_table_hdr_row_all(col1_txt, depth, keyOnly) ==
  as_tr(<<>>, MkStr(as_th(th_class, MkStr(<<Txt(col1_txt)>>))
                    \o as_th(th_class, MkStr(<<Txt("Type")>>))
                    \o as_th(th_class, MkStr(<<Txt("Value (depth="), Ch(Digits[depth + 1]),
                                               Txt(")")>>))))

make_table_hdr_row(col1_txt, depth, keyOnly) ==
  IF keyOnly
  THEN as_tr(<<>>, MkStr(as_th(th_class, MkStr(<<Txt(col1_txt)>>))))
  ELSE as_tr(<<>>, MkStr(as_th(th_class, MkStr(<<Txt(col1_txt)>>))
                         \o as_th(th_class, MkStr(<<Txt("Type")>>))
                         \o as_th(th_class, MkStr(<<Txt("Value (depth="), Ch(Digits[depth + 1]),
                                                    Txt(")")>>))))

empty_placeholder(obj)      == IF isArray(obj) THEN <<Txt("[]")>> ELSE <<Txt("{}")>>
suppressed_placeholder(obj) == IF isArray(obj) THEN <<Txt("[...]")>> ELSE <<Txt("{...}")>>

\* the (name, value, keyOnly) triples make_table_rows_from_obj passes to
\* make_table_row_from_prop, in the order it passes them
Entries(h, obj) ==
  LET kids == h[obj.ref].kids
      prop_names == sort(ObjectKeys(h, obj))
  IN  IF isArray(obj)
      THEN [i \in 1..Len(kids) |-> [key |-> kids[i].key, val |-> kids[i].val, keyOnly |-> FALSE]]
      ELSE IF isObject(obj)
      THEN [i \in 1..Len(kids) |-> [key |-> prop_names[i], val |-> GetProp(h, obj, prop_names[i]),
                                    keyOnly |-> FALSE]]
      ELSE IF isMap(obj)
      THEN [i \in 1..Len(kids) |-> [key |-> kids[i].key, val |-> kids[i].val, keyOnly |-> FALSE]]
      ELSE IF isSet(obj)
      THEN [i \in 1..Len(kids) |-> [key |-> kids[i].key, val |-> Null, keyOnly |-> TRUE]]
      ELSE <<>>

\* `${parent_name}-${prop_name}`.toLowerCase()
this_prop_name(parent_name, prop_name) ==
  toLowerCase(parent_name \o <<Ch("-")>> \o Str(prop_name))

\* a Type column that gives the controls beyond the depth limit too
type_col_deep(c, name, prop_value, depth) ==
  IF isExpandable(prop_value) /\ sizeOf(c.h, prop_value) > 0
  THEN expand_button_div(name, <<Txt(typeOf(prop_value))>>)
         \o collapse_button_div(name, <<Txt(typeOf(prop_value))>>)
  ELSE <<Txt(typeOf(prop_value))>>

\* a Type column that gives the controls to empty containers too
type_col_empty(c, name, prop_value, depth) ==
  IF isExpandable(prop_value) /\ below_limit(depth, c.lim)
  THEN expand_button_div(name, <<Txt(typeOf(prop_value))>>)
         \o collapse_button_div(name, <<Txt(typeOf(prop_value))>>)
  ELSE <<Txt(typeOf(prop_value))>>

\* the Type column of a row
type_col(c, name, prop_value, depth) ==
  IF isExpandable(prop_value) /\ sizeOf(c.h, prop_value) > 0 /\ below_limit(depth, c.lim)
  THEN expand_button_div(name, <<Txt(typeOf(prop_value))>>)
         \o collapse_button_div(name, <<Txt(typeOf(prop_value))>>)
  ELSE <<Txt(typeOf(prop_value))>>

\* a container that is never emitted hidden
make_collapsible_div_shown(div_name, table_rows, depth) ==
  as_div(<< <<Attr("id=\"")>> \o div_name \o <<Attr("-content\"")>>, <<>> >>,
         MkStr(as_table(<< <<Attr("class='bfu-table'")>> >>, MkStr(table_rows))))

make_collapsible_div(div_name, table_rows, depth) ==
  as_div(<< <<Attr("id=\"")>> \o div_name \o <<Attr("-content\"")>>,
            IF depth = 0 THEN <<>> ELSE <<Attr("style='display:none'")>> >>,
         MkStr(as_table(<< <<Attr("class='bfu-table'")>> >>, MkStr(table_rows))))

(***************************************************************************)
(* The calls of one render pass.  A row call is a call of                  *)
(* make_table_row_from_prop, a render call a call of render_value.  The    *)
(* recursion of the renderer is followed from the top-level value down;    *)
(* the results are then computed deepest level first, so that a call finds *)
(* the results of the calls it makes in the table m of the levels below.   *)
(***************************************************************************)
\* the idx-th call of make_table_row_from_prop made for the table of obj
RowArgs(obj, parent_name, e, idx, depth) ==
  [obj |-> obj, idx |-> idx, parent |-> parent_name, key |-> e.key, val |-> e.val,
   depth |-> depth, keyOnly |-> e.keyOnly]

\* the row call r goes on to call render_value on its value: building the
\* name of the row comes first, and a key that cannot be written into it
\* (a Symbol) raises TypeError there and ends the call
calls_render(c, r) ==
  /\ Poison \notin Range(this_prop_name(r.parent, r.key))
  /\ ~row_suppressed(c.sup, r.val)
  /\ \/ ~isExpandable(r.val)
     \/ sizeOf(c.h, r.val) > 0 /\ below_limit(r.depth, c.lim)

RECURSIVE RowCalls(_, _, _, _)
\* the row calls made, directly or not, by render_value(obj, obj_name, depth)
RowCalls(c, obj, obj_name, depth) ==
  IF ~isExpandable(obj) \/ sizeOf(c.h, obj) = 0 THEN {}
  ELSE LET es     == Entries(c.h, obj)
           direct == {RowArgs(obj, obj_name, es[i], i, depth) : i \in 1..Len(es)}
       IN  direct \cup
           UNION {RowCalls(c, r.val, this_prop_name(r.parent, r.key), r.depth + 1) :
                    r \in {x \in direct : calls_render(c, x)}}

RenderArgs(v, name, depth) == [v |-> v, name |-> name, depth |-> depth]

\* the render_value calls made by render_value(obj, obj_name, 0)
RenderCalls(c, obj, obj_name) ==
  {RenderArgs(obj, obj_name, 0)} \cup
  {RenderArgs(r.val, this_prop_name(r.parent, r.key), r.depth + 1) :
     r \in {x \in RowCalls(c, obj, obj_name, 0) : calls_render(c, x)}}

\* what the call render_value(v, name, depth) returned, from the table m
Returned(m, v, name, depth) ==
  (CHOOSE r \in m : r.v = v /\ r.name = name /\ r.depth = depth).out

\* the Value column of a row
value_col(c, m, name, prop_value, depth) ==
  IF isExpandable(prop_value)
  THEN IF sizeOf(c.h, prop_value) > 0
       THEN IF below_limit(depth, c.lim)
            THEN Returned(m, prop_value, name, depth + 1)
            ELSE MkStr(suppressed_placeholder(prop_value))
       ELSE MkStr(empty_placeholder(prop_value))
  ELSE Returned(m, prop_value, name, depth + 1)

\* one table row, or null for a suppressed function; a key that cannot be
\* written into the name raises TypeError before anything else is done
make_table_row_from_prop(c, m, parent_name, prop_name, prop_value, depth, keyOnly) ==
  LET name == this_prop_name(parent_name, prop_name)
  IN  IF Poison \in Range(name) THEN MkStr(<<Poison>>)
      ELSE IF row_suppressed(c.sup, prop_value) THEN Null
      ELSE MkStr(as_tr(<<>>, MkStr(
             as_td(td_class, prop_name)
               \o (IF keyOnly THEN <<>>
                   ELSE as_td(td_class, MkStr(type_col(c, name, prop_value, depth)))
                          \o as_td(td_class, value_col(c, m, name, prop_value, depth))))))

RECURSIVE RowsJoin(_, _, _, _, _)
\* the rows pushed to acc, joined
RowsJoin(c, m, obj_name, es, depth) ==
  IF es = <<>> THEN <<>>
  ELSE JoinEl(make_table_row_from_prop(c, m, obj_name, Head(es).key, Head(es).val, depth,
                                       Head(es).keyOnly))
         \o RowsJoin(c, m, obj_name, Tail(es), depth)

make_table_rows_from_obj(c, m, obj_name, obj, col1txt, depth) ==
  IF sizeOf(c.h, obj) > 0
  THEN make_table_hdr_row(col1txt, depth, isSet(obj))
         \o RowsJoin(c, m, obj_name, Entries(c.h, obj), depth)
  ELSE empty_placeholder(obj)

\* render_value with the scalar converted to a string
render_value_str(c, m, enum_arg, enum_name, depth) ==
  IF isExpandable(enum_arg)
  THEN MkStr(make_collapsible_div(enum_name,
               make_table_rows_from_obj(c, m, enum_name, enum_arg,
                                        columnHeadings(typeOf(enum_arg)), depth),
               depth))
  ELSE IF isFunction(enum_arg)
       THEN MkStr(<<Txt("Source code suppressed")>>)
       ELSE MkStr(Str(enum_arg))

\* render_value that gives the placeholder only while suppression is on
render_value_flag(c, m, enum_arg, enum_name, depth) ==
  IF isExpandable(enum_arg)
  THEN MkStr(make_collapsible_div(enum_name,
               make_table_rows_from_obj(c, m, enum_name, enum_arg,
                                        columnHeadings(typeOf(enum_arg)), depth),
               depth))
  ELSE IF isFunction(enum_arg) /\ c.sup
       THEN MkStr(<<Txt("Source code suppressed")>>)
       ELSE enum_arg

render_value(c, m, enum_arg, enum_name, depth) ==
  IF isExpandable(enum_arg)
  THEN MkStr(make_collapsible_div(enum_name,
               make_table_rows_from_obj(c, m, enum_name, enum_arg,
                                        columnHeadings(typeOf(enum_arg)), depth),
               depth))
  ELSE IF isFunction(enum_arg)
       THEN MkStr(<<Txt("Source code suppressed")>>)
       ELSE enum_arg

RenderRecord(c, m, a) ==
  [v |-> a.v, name |-> a.name, depth |-> a.depth,
   out |-> render_value(c, m, a.v, a.name, a.depth)]

RECURSIVE Renders(_, _, _)
\* the records of the render calls of depth d and more among calls
Renders(c, calls, d) ==
  IF {a \in calls : a.depth >= d} = {} THEN {}
  ELSE LET below == Renders(c, calls, d + 1)
       IN  below \cup {RenderRecord(c, below, a) : a \in {x \in calls : x.depth = d}}

RowRecord(c, m, r) ==
  LET name == this_prop_name(r.parent, r.key)
      thr  == Poison \in Range(name)
      sup  == ~thr /\ row_suppressed(c.sup, r.val)
  IN  [obj |-> r.obj, idx |-> r.idx,
       parent |-> r.parent, key |-> r.key, val |-> r.val, depth |-> r.depth,
       keyOnly |-> r.keyOnly, name |-> name, dropped |-> sup, thrown |-> thr,
       tc  |-> IF sup \/ thr THEN <<>> ELSE type_col(c, name, r.val, r.depth),
       vc  |-> IF sup \/ thr THEN Undefined ELSE value_col(c, m, name, r.val, r.depth),
       out |-> make_table_row_from_prop(c, m, r.parent, r.key, r.val, r.depth, r.keyOnly)]

(***************************************************************************)
(* Content assembler                                                       *)
(***************************************************************************)
isSpace(tok) == tok = Ch(" ")

RECURSIVE replace_ws(_, _)
\* str.replace(/\s+/g, '-'); prev tells that the previous character was white space
replace_ws(str, prev) ==
  IF str = <<>> THEN <<>>
  ELSE IF isSpace(Head(str))
       THEN (IF prev THEN <<>> ELSE <<Ch("-")>>) \o replace_ws(Tail(str), TRUE)
  ELSE IF Head(str) = Txt(" (Functions suppressed)")
       THEN <<IF prev THEN Txt("(Functions-suppressed)") ELSE Txt("-(Functions-suppressed)")>>
              \o replace_ws(Tail(str), FALSE)
  ELSE <<Head(str)>> \o replace_ws(Tail(str), FALSE)

\* the id of a top-level value
obj_name_of(hdr) == toLowerCase(replace_ws(hdr, FALSE))

\* `${el.title}${suppress_fns ? " (Functions suppressed)" : ""}`
hdr_of(sup, title) == Lit(title) \o (IF sup THEN <<Txt(" (Functions suppressed)")>> ELSE <<>>)

create_content_table(c, m, hdr, obj) ==
  as_div(<< <<Attr("class='bfu-content'")>> >>,
         MkStr(as_h2(<< <<Attr("class='bfu-header2'")>> >>, MkStr(hdr))
                 \o JoinEl(Returned(m, obj, obj_name_of(hdr), 0))))

\* building str raised TypeError
Raised(str) == Poison \in Range(str)

RECURSIVE Blocks(_, _, _)
\* the blocks tvArray.map builds, pair by pair: a block that raises ends
\* the map, the pairs after it are not looked at
Blocks(c, m, els) ==
  IF els = <<>> THEN <<>>
  ELSE LET b == create_content_table(c, m, hdr_of(c.sup, Head(els).title), Head(els).value)
       IN  IF Raised(b) THEN <<b>> ELSE <<b>> \o Blocks(c, m, Tail(els))

\* the blocks with the last pair first
content_tables_rev(c, m, els) ==
  LET bs == Blocks(c, m, els)
  IN  JoinWith([i \in 1..Len(bs) |-> bs[Len(bs) + 1 - i]], <<>>)

\* tvArray.map(el => create_content_table(...)).join("")
content_tables(c, m, els) == JoinWith(Blocks(c, m, els), <<>>)

\* tvArray is [t |-> the tag of the argument, els |-> its elements]
create_content(c, m, tvArray) ==
  IF isArray(tvArray) /\ Len(tvArray.els) > 0
  THEN as_div(<<>>, MkStr(
         as_style(<<>>, MkStr(<<Txt("bfu-style.css")>>))
           \o content_tables(c, m, tvArray.els)
           \o as_script(<<>>, MkStr(<<Txt("image_src_data")>>))
           \o as_script(<< <<Attr("type='text/javascript'")>> >>,
                        MkStr(<<Txt("expand_collapse.js")>>))))
  ELSE as_div(<<>>, MkStr(<<Txt("Nothing to see here.  Move along...")>>))

\* what a call gives back: the string, or the TypeError raised while building it
Outcome(str) == IF Poison \in Range(str)
                THEN [thrown |-> TRUE, val |-> Undefined]
                ELSE [thrown |-> FALSE, val |-> MkStr(str)]

(***************************************************************************)
(* One render pass over the pairs els                                      *)
(***************************************************************************)
\* The calls a pass would make if nothing raised, with their records.  A call
\* that raises TypeError ends the pass, so the calls that are made are those
\* that come before the first raise in the order of the recursion.
Candidates(c, els) ==
  UNION {RenderCalls(c, els[i].value, obj_name_of(hdr_of(c.sup, els[i].title))) :
         i \in 1..Len(els)}

CandidateRenders(c, els) == Renders(c, Candidates(c, els), 0)

CandidateRows(c, m, els) ==
  UNION {{RowRecord(c, m, r) :
            r \in RowCalls(c, els[i].value, obj_name_of(hdr_of(c.sup, els[i].title)), 0)} :
         i \in 1..Len(els)}

\* the pairs tvArray.map gets to: those with no raising block before them
PairsReached(c, m, els) ==
  {i \in 1..Len(els) :
     \A j \in 1..(i - 1) :
       ~Raised(create_content_table(c, m, hdr_of(c.sup, els[j].title), els[j].value))}

\* the row calls of depth d that are made when the render calls xs of depth
\* d are: a table is built row by row, no row call follows one that raised
RowsMade(rs, xs, d) ==
  {r \in rs :
     /\ r.depth = d
     /\ \E x \in xs : x.v = r.obj /\ x.name = r.parent
     /\ \A q \in rs :
          (q.obj = r.obj /\ q.parent = r.parent /\ q.depth = d /\ q.idx < r.idx)
            => ~Raised(q.out.s)}

RECURSIVE Made(_, _, _, _, _)
\* the render and row calls that are made from depth d on, xs being the
\* render calls of depth d that are made
Made(c, m, rs, xs, d) ==
  IF xs = {} THEN [renders |-> {}, rows |-> {}]
  ELSE LET rowsD == RowsMade(rs, xs, d)
           next  == {x \in m : /\ x.depth = d + 1
                                /\ \E r \in rowsD :
                                     r.val = x.v /\ r.name = x.name /\ calls_render(c, r)}
           below == Made(c, m, rs, next, d + 1)
       IN  [renders |-> xs \cup below.renders, rows |-> rowsD \cup below.rows]

\* the calls of the pass over the pairs els that are made, with their records
MadeOfPass(c, els) ==
  LET m   == CandidateRenders(c, els)
      rs  == CandidateRows(c, m, els)
      top == {x \in m : /\ x.depth = 0
                         /\ \E i \in PairsReached(c, m, els) :
                              /\ x.v = els[i].value
                              /\ x.name = obj_name_of(hdr_of(c.sup, els[i].title))}
  IN  Made(c, m, rs, top, 0)

CallsOfPass(c, els) ==
  {RenderArgs(x.v, x.name, x.depth) : x \in MadeOfPass(c, els).renders}

RendersOfPass(c, els) == MadeOfPass(c, els).renders

\* m holds the records of the render calls of the pass
RowsOfPass(c, m, els) == MadeOfPass(c, els).rows

(***************************************************************************)
(* State machine: the configuration calls and the entry points             *)
(***************************************************************************)
Cfg == [h |-> heap, lim |-> depth_limit, sup |-> suppress_fns]

\* arguments handed to set_depth_limit: 1, 1.5, 2, 2.5, ... MaxDepthLimit, and
\* arguments it rejects (-1, 0, 0.5, NaN, "3", null, undefined), and 2n
LimArgs ==
  {Lim("Number", n, "finite") : n \in {-2, 0, 1} \cup 2..(2 * MaxDepthLimit)}
    \cup {Lim("Number", 0, "nan"), Lim("BigInt", 4, "finite"), Lim("String", 6, "finite"),
          Lim("Null", 0, "finite"), Lim("Undefined", 0, "nan")}

\* lim >= 1
at_least_one(lim) == lim.cls = "finite" /\ lim.twice >= 2

\* arguments handed to create_content
SmallRoots == {Num("1"), ValOf(Heap0, 2), ValOf(Heap0, 6)}
Pairs(vals) == {[title |-> ti, value |-> v] : ti \in Titles, v \in vals}
TvArrays ==
  {[t |-> "Array", els |-> <<>>], [t |-> "Null", els |-> <<>>], [t |-> "Undefined", els |-> <<>>]}
    \cup {[t |-> "Object", els |-> <<p>>] : p \in Pairs({Num("1")})}
    \cup {[t |-> "Array", els |-> <<p, q>>] : p \in Pairs(SmallRoots), q \in Pairs(SmallRoots)}
    \cup {[t |-> "Array", els |-> <<[title |-> <<"t">>, value |-> v],
                                    [title |-> <<"A", " ", "b">>, value |-> ValOf(Heap0, 6)]>>] :
            v \in {Sym, ValOf(Heap0, 42)}}

NoCall == [op |-> "none", tv |-> [t |-> "Undefined", els |-> <<>>]]
NoResult == [thrown |-> FALSE, val |-> Undefined]

\* nothing kept of an earlier render
NoMemo == [call |-> NoCall, lim |-> Lim("Number", 0, "finite"), sup |-> FALSE,
           result |-> NoResult, between |-> FALSE]

Init ==
  /\ heap = Heap0
  /\ depth_limit = Lim("Number", 6, "finite")
  /\ suppress_fns = TRUE
  /\ call = NoCall
  /\ result = NoResult
  /\ renders = {}
  /\ rows = {}
  /\ stack = <<>>
  /\ pc = "idle"
  /\ memo = NoMemo
  /\ padding = 0
  /\ dom = <<>>

\* set_depth_limit(lim)
SetDepthLimit(lim) ==
  /\ pc = "idle"
  /\ depth_limit' = IF isNumeric(lim) /\ at_least_one(lim) THEN lim ELSE depth_limit
  /\ UNCHANGED <<heap, suppress_fns, call, result, renders, rows, stack, pc, memo, padding, dom>>

\* show_fns()
ShowFns ==
  /\ pc = "idle"
  /\ suppress_fns' = FALSE
  /\ UNCHANGED <<heap, depth_limit, call, result, renders, rows, stack, pc, memo, padding, dom>>

\* hide_fns()
HideFns ==
  /\ pc = "idle"
  /\ suppress_fns' = TRUE
  /\ UNCHANGED <<heap, depth_limit, call, result, renders, rows, stack, pc, memo, padding, dom>>

\* a pass that sorts the properties of the objects it shows in place
heap_after_sorted(c, rs) ==
  [a \in DOMAIN c.h |->
     IF \E r \in rs : r.obj.ref = a /\ isObject(r.obj)
     THEN [c.h[a] EXCEPT !.kids =
             LET es == Entries(c.h, ValOf(c.h, a))
             IN  [i \in 1..Len(es) |-> P(es[i].key, es[i].val)]]
     ELSE c.h[a]]

\* a pass that marks the objects it has shown, to know them again
heap_after_marked(c, rs) ==
  [a \in DOMAIN c.h |->
     IF \E r \in rs : r.obj.ref = a /\ isObject(r.obj)
     THEN [c.h[a] EXCEPT !.kids = Append(c.h[a].kids, P(Key(<<"z">>), True))]
     ELSE c.h[a]]

\* the heap after a pass that made the row calls rs: make_table_rows_from_obj
\* sorts the new array that Object.keys gives it and reads the entries of
\* arrays, maps and sets through map, an iterator and forEach; no container
\* is written
heap_after(c, rs) == [a \in DOMAIN c.h |-> c.h[a]]

\* the effect of create_content(tvArray), called as op
Rendered(op, tvArray) ==
  LET m  == IF isArray(tvArray) THEN RendersOfPass(Cfg, tvArray.els) ELSE {}
      rs == IF isArray(tvArray) THEN RowsOfPass(Cfg, m, tvArray.els) ELSE {}
  IN  /\ call' = [op |-> op, tv |-> tvArray]
      /\ renders' = m
      /\ rows' = rs
      /\ result' = Outcome(create_content(Cfg, m, tvArray))
      /\ heap' = heap_after(Cfg, rs)
      /\ pc' = "done"
      /\ UNCHANGED <<depth_limit, suppress_fns, stack, memo, padding, dom>>

\* create_content(tvArray)
CreateContent(tvArray) ==
  /\ pc = "idle"
  /\ Rendered("create_content", tvArray)

\* show_object(title, val)
ShowObject(title, val) ==
  /\ pc = "idle"
  /\ Rendered("show_object", [t |-> "Array", els |-> <<[title |-> title, value |-> val]>>])

\* the caller takes the fragment; the records of the pass are dropped
Return ==
  /\ pc = "done"
  /\ call' = NoCall
  /\ result' = NoResult
  /\ renders' = {}
  /\ rows' = {}
  /\ pc' = "idle"
  /\ UNCHANGED <<heap, depth_limit, suppress_fns, stack, memo, padding, dom>>

(***************************************************************************)
(* The recursion of one render pass, call by call: stack holds the calls   *)
(* of render_value and make_table_row_from_prop that are still to be made, *)
(* the next one on top.                                                    *)
(***************************************************************************)
Frame(fn, v, name, key, depth) == [fn |-> fn, v |-> v, name |-> name, key |-> key, depth |-> depth]

\* show_object(title, val) is entered: create_content_table calls render_value at depth 0
Begin(title, val) ==
  /\ pc = "idle"
  /\ call' = [op |-> "show_object",
              tv |-> [t |-> "Array", els |-> <<[title |-> title, value |-> val]>>]]
  /\ stack' = <<Frame("render_value", val, obj_name_of(hdr_of(suppress_fns, title)), Null, 0)>>
  /\ pc' = "running"
  /\ UNCHANGED <<heap, depth_limit, suppress_fns, result, renders, rows, memo, padding, dom>>

\* render_value: a nonempty expandable value makes one row call per entry;
\* a Symbol is returned as it is and the caller, which cannot write it into
\* its cell or block, raises TypeError: no further call is made
StepRender ==
  /\ pc = "running" /\ stack # <<>> /\ Head(stack).fn = "render_value"
  /\ LET f  == Head(stack)
         es == Entries(heap, f.v)
     IN  stack' = IF typeOf(f.v) = "Symbol" THEN <<>>
                  ELSE (IF isExpandable(f.v) /\ sizeOf(heap, f.v) > 0
                        THEN [i \in 1..Len(es) |->
                                Frame("make_table_row_from_prop", es[i].val, f.name, es[i].key,
                                      f.depth)]
                        ELSE <<>>) \o Tail(stack)
  /\ UNCHANGED <<heap, depth_limit, suppress_fns, call, result, renders, rows, pc, memo, padding, dom>>

\* make_table_row_from_prop: calls render_value one level down unless the row
\* is dropped or its value is shown as a placeholder; a key that cannot be
\* written into the name raises TypeError and no further call is made
StepRow ==
  /\ pc = "running" /\ stack # <<>> /\ Head(stack).fn = "make_table_row_from_prop"
  /\ LET f == Head(stack)
         r == [parent |-> f.name, key |-> f.key, val |-> f.v, depth |-> f.depth,
               keyOnly |-> FALSE]
     IN  stack' = IF Raised(this_prop_name(f.name, f.key)) THEN <<>>
                  ELSE (IF calls_render(Cfg, r)
                        THEN <<Frame("render_value", f.v, this_prop_name(f.name, f.key), Null,
                                     f.depth + 1)>>
                        ELSE <<>>) \o Tail(stack)
  /\ UNCHANGED <<heap, depth_limit, suppress_fns, call, result, renders, rows, pc, memo, padding, dom>>

\* the last call has returned: the fragment is handed back
Finish ==
  /\ pc = "running" /\ stack = <<>>
  /\ Rendered(call.op, call.tv)

TermNext ==
  \/ \E lim \in LimArgs : SetDepthLimit(lim)
  \/ ShowFns
  \/ HideFns
  \/ \E title \in Titles, val \in Roots : Begin(title, val)
  \/ StepRender
  \/ StepRow
  \/ Finish
  \/ Return

\* Finish as pc shows it; Finish is the only step of TermNext that is one
Returns == pc = "running" /\ stack = <<>> /\ pc' = "done"

\* a call runs to completion: nothing interrupts the synchronous recursion
TermSpec == Init /\ [][TermNext]_vars /\ WF_vars(StepRender \/ StepRow) /\ WF_pc(Returns)

(***************************************************************************)
(* Renders one after the other: memo keeps one finished render, with the   *)
(* configuration it was made under, while later ones go by.                *)
(***************************************************************************)
DetRoots == {Num("1"), ValOf(Heap0, 6), ValOf(Heap0, 10)}

\* the caller keeps the fragment of this render
Keep ==
  /\ pc = "done" /\ memo = NoMemo
  /\ memo' = [call |-> call, lim |-> depth_limit, sup |-> suppress_fns, result |-> result,
              between |-> FALSE]
  /\ call' = NoCall
  /\ result' = NoResult
  /\ renders' = {}
  /\ rows' = {}
  /\ pc' = "idle"
  /\ UNCHANGED <<heap, depth_limit, suppress_fns, stack, padding, dom>>

\* a render of something else, or under other settings, goes by
Pass ==
  /\ pc = "done" /\ memo # NoMemo
  /\ call # memo.call \/ depth_limit # memo.lim \/ suppress_fns # memo.sup
  /\ memo' = [memo EXCEPT !.between = TRUE]
  /\ call' = NoCall
  /\ result' = NoResult
  /\ renders' = {}
  /\ rows' = {}
  /\ pc' = "idle"
  /\ UNCHANGED <<heap, depth_limit, suppress_fns, stack, padding, dom>>

DetNext ==
  \/ \E lim \in LimArgs : SetDepthLimit(lim)
  \/ ShowFns
  \/ HideFns
  \/ \E title \in Titles, val \in DetRoots : ShowObject(title, val)
  \/ Keep
  \/ Pass
  \/ Return

DetSpec == Init /\ [][DetNext]_vars

(***************************************************************************)
(* The TypeScript entry point: objectToHtml adapts its argument with       *)
(* dumpableError and hands the adapted object to show_object.              *)
(***************************************************************************)
\* the own properties of a value, in the order of Object.getOwnPropertyNames
OwnProps(h, v) ==
  IF v.ref = 0 THEN <<>>
  ELSE IF "own" \in DOMAIN h[v.ref] THEN h[v.ref].own ELSE h[v.ref].kids

\* the properties of the prototype of a value
ProtoProps(h, v) ==
  IF v.ref # 0 /\ "proto" \in DOMAIN h[v.ref] THEN h[v.ref].proto ELSE <<>>

\* the value of the first property named key among props, undefined if none
Lookup(props, key) ==
  IF \E i \in 1..Len(props) : props[i].key = key
  THEN props[CHOOSE i \in 1..Len(props) : props[i].key = key].val
  ELSE Undefined

\* e[key]: an own property, or else one of the prototype
Get(h, e, key) ==
  IF \E i \in 1..Len(OwnProps(h, e)) : OwnProps(h, e)[i].key = key
  THEN Lookup(OwnProps(h, e), key)
  ELSE Lookup(ProtoProps(h, e), key)

\* the conversion of a value to a boolean
Truthy(x) ==
  /\ ~isNullOrUndef(x)
  /\ x \notin {NaN, Num("0"), MkStr(<<>>), V("Boolean", 0, <<Txt("false")>>)}

isError(h, e) ==
  /\ Truthy(e)
  /\ Truthy(Get(h, e, StackKey))
  /\ Truthy(Get(h, e, MessageKey))
  /\ typeOf(Get(h, e, StackKey)) = "String"
  /\ typeOf(Get(h, e, MessageKey)) = "String"

\* the positions of sep in str
SepsOf(str, sep) == {i \in 1..Len(str) : str[i] = sep}

\* String.prototype.split(sep) for a separator of one character
split(str, sep) ==
  LET seps   == SepsOf(str, sep)
      pos(k) == CHOOSE i \in seps : Cardinality({j \in seps : j < i}) = k - 1
      n      == Cardinality(seps) + 1
  IN  [k \in 1..n |->
         SubSeq(str, IF k = 1 THEN 1 ELSE pos(k - 1) + 1,
                     IF k = n THEN Len(str) ELSE pos(k) - 1)]

\* { ...err }: the own enumerable properties of err, none for a primitive
\* other than a string, a Map or a Set
Spread(h, err) ==
  IF err.ref = 0
  THEN IF typeOf(err) = "String"
       THEN [i \in 1..Len(err.s) |-> P(Key(<<Digits[i]>>), MkStr(<<err.s[i]>>))]
       ELSE <<>>
  ELSE IF isMap(err) \/ isSet(err) THEN <<>>
  ELSE [i \in 1..Len(h[err.ref].kids) |->
          P(MkStr(h[err.ref].kids[i].key.s), h[err.ref].kids[i].val)]

\* dumpableError(err): the objects it allocates (at the addresses after those
\* of h) and the value it returns, or the TypeError of result.stack.split
dumpableError(h, err) ==
  LET new == Len(h) + 1
  IN  IF isError(h, err)
      THEN LET own    == OwnProps(h, err)
               result_stack == Lookup(own, StackKey)
               lines  == split(result_stack.s, NL)
               arr    == Arr([k \in 1..Len(lines) |-> MkStr(lines[k])],
                             JoinWith(lines, <<Ch(",")>>))
               acc    == [i \in 1..Len(own) |->
                            IF own[i].key = StackKey
                            THEN P(StackKey, RArr(new + 1, arr.s))
                            ELSE own[i]]
           IN  IF typeOf(result_stack) # "String"
               THEN [thrown |-> TRUE, nodes |-> <<>>, val |-> Undefined]
               ELSE [thrown |-> FALSE, nodes |-> <<Obj(acc), arr>>, val |-> RObj(new)]
      ELSE [thrown |-> FALSE, nodes |-> <<Obj(Spread(h, err))>>, val |-> RObj(new)]

\* the values handed to objectToHtml
ErrArgs == {ValOf(Heap0, n) : n \in 35..40}
             \cup {Num("1"), Null, Key(<<"x">>), ValOf(Heap0, 5), ValOf(Heap0, 6), ValOf(Heap0, 9)}

\* options?.title: none, or a title
TitleOptions == Titles \cup {<<>>}

\* the options argument left out
NoOptions == [title |-> <<>>, absent |-> TRUE]

\* the options handed to objectToHtml: none, or a FormatOptions record
\* (title <<>> is the empty string)
Options ==
  {NoOptions}
    \cup [title : TitleOptions, includeJavaScript : BOOLEAN, hideFunctions : BOOLEAN,
          depthLimit : {Lim("Number", 2, "finite"), Lim("Number", 6, "finite")},
          absent : {FALSE}]

\* options?.title ? options?.title : "Object"
title_of(options) ==
  IF ~options.absent /\ options.title # <<>> THEN options.title
  ELSE <<"O", "b", "j", "e", "c", "t">>

\* settings taken from the options
settings_of_options(options) ==
  IF options.absent THEN Cfg
  ELSE [h |-> heap, lim |-> options.depthLimit, sup |-> options.hideFunctions]

\* the settings show_object renders under when objectToHtml calls it: the
\* process-wide ones, no field of options is handed on
settings_of(options) == Cfg

\* objectToHtml(obj, options) up to the call of show_object: obj = dumpableError(obj)
Adapt(obj, options) ==
  LET d == dumpableError(heap, obj)
      t == title_of(options)
  IN  /\ pc = "idle"
      /\ IF d.thrown
         THEN /\ call' = [op |-> "objectToHtml", tv |-> [t |-> "Array", els |-> <<>>], arg |-> obj,
                          options |-> options]
              /\ result' = [thrown |-> TRUE, val |-> Undefined]
              /\ pc' = "done"
              /\ heap' = heap
         ELSE /\ call' = [op |-> "objectToHtml",
                          tv |-> [t |-> "Array", els |-> <<[title |-> t, value |-> d.val]>>],
                          arg |-> obj, options |-> options]
              /\ result' = result
              /\ pc' = "adapted"
              /\ heap' = heap \o d.nodes
      /\ UNCHANGED <<depth_limit, suppress_fns, renders, rows, stack, memo, padding, dom>>

\* objectToHtml from the call of show_object on
Invoke ==
  LET c == settings_of(call.options)
      m == RendersOfPass(c, call.tv.els)
  IN  /\ pc = "adapted"
      /\ renders' = m
      /\ rows' = RowsOfPass(c, m, call.tv.els)
      /\ result' = Outcome(create_content(c, m, call.tv))
      /\ pc' = "done"
      /\ UNCHANGED <<heap, depth_limit, suppress_fns, call, stack, memo, padding, dom>>

\* the caller takes the fragment; the adapted object is no longer referenced
Release ==
  /\ pc = "done"
  /\ heap' = Heap0
  /\ call' = NoCall
  /\ result' = NoResult
  /\ renders' = {}
  /\ rows' = {}
  /\ pc' = "idle"
  /\ UNCHANGED <<depth_limit, suppress_fns, stack, memo, padding, dom>>

(***************************************************************************)
(* lib.js: obj_to_str, with its own depth limit (2 at the start) and the   *)
(* padding string, of which the model keeps the length.                    *)
(***************************************************************************)
indent_by == 2

Overflow == [k |-> "throw", v |-> "RangeError"]

\* n spaces
Spaces(n) == [i \in 1..n |-> Ch(" ")]

\* padding.slice(0, depth * indent_by)
pad_of(pd, depth) == Spaces(IF depth * indent_by < pd THEN depth * indent_by ELSE pd)

\* depth === depth_limit
depth_is_limit(depth, lim) ==
  lim.t = "Number" /\ lim.cls = "finite" /\ lim.twice = 2 * depth

\* for (var key in obj_arg): the enumerable properties, own ones first, then
\* those of the prototype that no own property hides
ForIn(h, obj_arg) ==
  IF obj_arg.ref = 0 \/ isMap(obj_arg) \/ isSet(obj_arg) THEN <<>>
  ELSE LET kids == h[obj_arg.ref].kids
           inh  == IF h[obj_arg.ref].t = "Object" THEN ProtoProps(h, obj_arg) ELSE <<>>
       IN  [i \in 1..Len(kids) |-> P(MkStr(kids[i].key.s), kids[i].val)]
             \o SelectSeq(inh, LAMBDA q : \A i \in 1..Len(kids) : kids[i].key # q.key)

RECURSIVE obj_to_str(_, _, _, _, _)
\* obj_to_str(obj_arg, depth) under the limit lim and a padding of pd spaces;
\* a recursion deeper than the call stack raises RangeError
obj_to_str(h, lim, pd, obj_arg, depth) ==
  IF depth > StackLimit THEN MkStr(<<Overflow>>)
  ELSE IF depth_is_limit(depth, lim) THEN MkStr(<<Txt("{...}")>>)
  ELSE IF isNullOrUndef(obj_arg) THEN obj_arg
  ELSE LET props == ForIn(h, obj_arg)
           pad   == pad_of(pd, depth)
           shown(v) == CASE typeOf(v) = "Object"   -> Str(obj_to_str(h, lim, pd, v, depth + 1))
                         [] typeOf(v) = "Function" -> <<Txt("Function")>>
                         [] typeOf(v) = "Array"    -> <<Txt("Array")>>
                         [] OTHER                  -> Str(v)
           acc   == [i \in 1..Len(props) |->
                       <<Txt("\"")>> \o props[i].key.s \o <<Txt("\": ")>> \o shown(props[i].val)]
       IN  IF Len(acc) > 0
           THEN MkStr(<<Txt("{"), NL>> \o pad \o Spaces(2)
                        \o JoinWith(acc, <<NL>> \o pad \o <<Ch(","), Ch(" ")>>)
                        \o <<NL>> \o pad \o <<Txt("}")>>)
           ELSE MkStr(<<Txt("{}")>>)

\* what a call of obj_to_str gives back: the value, or the error raised
LibOutcome(v) ==
  IF typeOf(v) # "String" THEN [thrown |-> FALSE, val |-> v]
  ELSE IF Overflow \in Range(v.s) THEN [thrown |-> TRUE, val |-> MkStr(<<Txt("RangeError")>>)]
  ELSE IF Poison \in Range(v.s) THEN [thrown |-> TRUE, val |-> MkStr(<<Txt("TypeError")>>)]
  ELSE [thrown |-> FALSE, val |-> v]

\* the values handed to obj_to_str
LibRoots == {Null, ValOf(Heap0, 2), ValOf(Heap0, 6), ValOf(Heap0, 10), ValOf(Heap0, 12),
             ValOf(Heap0, 14), ValOf(Heap0, 15), ValOf(Heap0, 22), ValOf(Heap0, 29),
             ValOf(Heap0, 31), ValOf(Heap0, 35), ValOf(Heap0, 39), Undefined, Num("1"),
             ValOf(Heap0, 7), ValOf(Heap0, 28), ValOf(Heap0, 30), ValOf(Heap0, 42),
             ValOf(Heap0, 1), ValOf(Heap0, 5)}

\* the values handed to push and unshift as arr, and as newEl
PushTargets == {ValOf(Heap0, 1), ValOf(Heap0, 5), ValOf(Heap0, 6), Null}
NewEls == {Num("4"), ValOf(Heap0, 6)}

LibInit ==
  /\ heap = Heap0
  /\ depth_limit = Lim("Number", 4, "finite")
  /\ padding = 4
  /\ suppress_fns = TRUE
  /\ call = NoCall
  /\ result = NoResult
  /\ renders = {}
  /\ rows = {}
  /\ stack = <<>>
  /\ pc = "idle"
  /\ memo = NoMemo
  /\ dom = <<>>

\* isNumeric of lib.js: typeOf(x) === "Number"
lib_isNumeric(x) == typeOf(x) = "Number"

\* set_depth_limit(lim) of lib.js: a Number of 1 or more is stored and the
\* padding is rebuilt from it (" ".repeat takes the whole part of a count);
\* every other argument, a BigInt included, changes nothing
LibSetDepthLimit(lim) ==
  /\ pc = "idle"
  /\ IF lib_isNumeric(lim) /\ at_least_one(lim)
     THEN /\ depth_limit' = lim
          /\ padding' = (lim.twice * indent_by) \div 2
     ELSE UNCHANGED <<depth_limit, padding>>
  /\ UNCHANGED <<heap, suppress_fns, call, result, renders, rows, stack, pc, memo, dom>>

\* the value v as the heap h holds it now
Fresh(h, v) == IF v.ref = 0 THEN v ELSE ValOf(h, v.ref)

\* the heap h with node written at address a; every reference to a converts
\* to the string of node from then on
Written(h, a, node) ==
  LET now(v) == IF v.ref = a THEN V(node.t, a, node.s) ELSE v
  IN  [n \in DOMAIN h |->
         LET nd == IF n = a THEN node ELSE h[n]
         IN  [nd EXCEPT !.kids = [i \in 1..Len(nd.kids) |->
                                   P(now(nd.kids[i].key), now(nd.kids[i].val))]]]

\* the array node after arr.push(newEl): newEl is its last element
pushed(node, newEl) ==
  Arr([i \in 1..Len(node.kids) |-> node.kids[i].val] \o <<newEl>>,
      IF Len(node.kids) = 0 THEN JoinEl(newEl) ELSE node.s \o <<Txt(",")>> \o JoinEl(newEl))

\* the array node after arr.unshift(newEl): newEl is its first element
unshifted(node, newEl) ==
  Arr(<<newEl>> \o [i \in 1..Len(node.kids) |-> node.kids[i].val],
      IF Len(node.kids) = 0 THEN JoinEl(newEl) ELSE JoinEl(newEl) \o <<Txt(",")>> \o node.s)

\* a call op(arr, newEl) of push or unshift: the array handed in is written
\* and given back; a value that has no such method raises TypeError
ArrayOp(op, arr, newEl) ==
  /\ pc = "idle"
  /\ isArray(arr) => Len(heap[arr.ref].kids) < MaxArrayLen
  /\ call' = [op |-> op, tv |-> [t |-> "Undefined", els |-> <<>>], arg |-> arr, el |-> newEl]
  /\ IF isArray(arr)
     THEN LET node == IF op = "push" THEN pushed(heap[arr.ref], newEl)
                      ELSE unshifted(heap[arr.ref], newEl)
          IN  /\ heap' = Written(heap, arr.ref, node)
              /\ result' = [thrown |-> FALSE, val |-> V(node.t, arr.ref, node.s)]
     ELSE /\ heap' = heap
          /\ result' = [thrown |-> TRUE, val |-> MkStr(<<Txt("TypeError")>>)]
  /\ pc' = "done"
  /\ UNCHANGED <<depth_limit, suppress_fns, renders, rows, stack, memo, padding, dom>>

\* push(arr, newEl)
LibPush(arr, newEl) == ArrayOp("push", arr, newEl)

\* unshift(arr, newEl)
LibUnshift(arr, newEl) == ArrayOp("unshift", arr, newEl)

\* obj_to_str(obj_arg), the depth left out
ObjToStr(obj_arg) ==
  /\ pc = "idle"
  /\ call' = [op |-> "obj_to_str", tv |-> [t |-> "Undefined", els |-> <<>>], arg |-> obj_arg]
  /\ result' = LibOutcome(obj_to_str(heap, depth_limit, padding, obj_arg, 0))
  /\ pc' = "done"
  /\ UNCHANGED <<heap, depth_limit, suppress_fns, renders, rows, stack, memo, padding, dom>>

LibNext ==
  \/ \E lim \in LimArgs : LibSetDepthLimit(lim)
  \/ \E obj_arg \in LibRoots : ObjToStr(Fresh(heap, obj_arg))
  \/ \E arr \in PushTargets, newEl \in NewEls : LibPush(Fresh(heap, arr), newEl)
  \/ \E arr \in PushTargets, newEl \in NewEls : LibUnshift(Fresh(heap, arr), newEl)
  \/ Return

LibSpec == LibInit /\ [][LibNext]_vars

(***************************************************************************)
(* The page: the browser parses the returned fragment; dom maps an element *)
(* that has an id (the position of its id attribute in the fragment) to    *)
(* its style.display.  A click on a control runs its onclick handler,      *)
(* expand('<id>') or collapse('<id>') of expand_collapse.js.               *)
(***************************************************************************)
\* the least element of a nonempty set of numbers
Least(S) == CHOOSE j \in S : \A k \in S : j <= k

\* the position of the first attribute piece after position i
AttrEnd(str, i) == Least({j \in (i + 1)..Len(str) : str[j].k = "attr"})

\* the positions of the id attributes of the fragment
ElementsOf(str) == {i \in 1..Len(str) : str[i] \in {Attr("id=\""), Attr("id='")}}

\* the id of the element at i: the node id and what follows it
\* ("content", or "right" / "down" for the arrows)
IdOf(str, i) ==
  LET e == AttrEnd(str, i)
  IN  [name   |-> SubSeq(str, i + 1, e - 1),
       suffix |-> IF str[e] = Attr("-content\"") THEN "content" ELSE str[e + 1].v]

\* the tag of the element at i carries style='display:none'
StyledNone(str, i) ==
  LET close == Least({j \in (i + 1)..Len(str) : str[j] = Gt})
  IN  \E j \in i..close : str[j] = Attr("style='display:none'")

\* the style.display of every element right after parsing
InitialDisplay(str) ==
  [i \in ElementsOf(str) |-> IF StyledNone(str, i) THEN "none" ELSE ""]

\* document.getElementById: the first element with the id, 0 for null
getElementById(str, name, suffix) ==
  LET S == {i \in ElementsOf(str) : IdOf(str, i) = [name |-> name, suffix |-> suffix]}
  IN  IF S = {} THEN 0 ELSE Least(S)

\* the statements of a handler, in order; the first element that is not
\* found raises TypeError and ends the handler
SetDisplays(d, str, elName, steps) ==
  LET c == getElementById(str, elName, steps[1][1])
      a == getElementById(str, elName, steps[2][1])
      r == getElementById(str, elName, steps[3][1])
      d1 == IF c = 0 THEN d ELSE [d EXCEPT ![c] = steps[1][2]]
      d2 == IF c = 0 \/ a = 0 THEN d1 ELSE [d1 EXCEPT ![a] = steps[2][2]]
  IN  IF c = 0 \/ a = 0 \/ r = 0 THEN d2 ELSE [d2 EXCEPT ![r] = steps[3][2]]

\* an expand that leaves the expand control as it is
expand_keep(d, str, elName) ==
  SetDisplays(d, str, elName,
              << <<"content", "block">>, <<"down", "block">>, <<"right", d[getElementById(str, elName, "right")]>> >>)

expand(d, str, elName) ==
  SetDisplays(d, str, elName,
              << <<"content", "block">>, <<"down", "block">>, <<"right", "none">> >>)

collapse(d, str, elName) ==
  SetDisplays(d, str, elName,
              << <<"content", "none">>, <<"down", "none">>, <<"right", "block">> >>)

\* the positions of the onclick attributes of the fragment
HandlersOf(str) == {i \in 1..Len(str) : str[i] = Attr("onclick=\"")}

\* the function the handler at i calls and its argument
HandlerAction(str, i) == str[i + 1].v
HandlerArg(str, i) == SubSeq(str, i + 3, AttrEnd(str, i + 2) - 1)

\* what the handler at i makes of the displays d
RunHandler(d, str, i) ==
  IF HandlerAction(str, i) = "expand"
  THEN expand(d, str, HandlerArg(str, i))
  ELSE collapse(d, str, HandlerArg(str, i))

\* the fragments that are loaded into a page
DomTvArrays ==
  {[t |-> "Array", els |-> <<[title |-> <<"t">>, value |-> ValOf(Heap0, n)]>>] : n \in {22, 30, 31}}
    \cup {[t |-> "Array", els |-> <<[title |-> <<"t">>, value |-> Num("1")]>>],
          [t |-> "Array", els |-> <<[title |-> <<"t", "-", "a">>, value |-> ValOf(Heap0, 6)],
                                    [title |-> <<"t">>, value |-> ValOf(Heap0, 30)]>>]}

\* the browser parses the fragment
Load ==
  /\ pc = "done" /\ ~result.thrown /\ typeOf(result.val) = "String"
  /\ dom' = InitialDisplay(result.val.s)
  /\ pc' = "loaded"
  /\ UNCHANGED <<heap, depth_limit, suppress_fns, call, result, renders, rows, stack, memo,
                 padding>>

\* a click on one of the controls of the page
Click ==
  /\ pc = "loaded"
  /\ \E i \in HandlersOf(result.val.s) : dom' = RunHandler(dom, result.val.s, i)
  /\ UNCHANGED <<heap, depth_limit, suppress_fns, call, result, renders, rows, stack, pc, memo,
                 padding>>

\* the page is left
Unload ==
  /\ pc = "loaded"
  /\ dom' = <<>>
  /\ call' = NoCall
  /\ result' = NoResult
  /\ renders' = {}
  /\ rows' = {}
  /\ pc' = "idle"
  /\ UNCHANGED <<heap, depth_limit, suppress_fns, stack, memo, padding>>

DomNext ==
  \/ \E lim \in LimArgs : SetDepthLimit(lim)
  \/ ShowFns
  \/ HideFns
  \/ \E tvArray \in DomTvArrays : CreateContent(tvArray)
  \/ Load
  \/ Click
  \/ Unload
  \/ Return

DomSpec == Init /\ [][DomNext]_vars

\* isExpandable(v) and sizeOf(v), called from outside the renderer
Classify(v) ==
  /\ pc = "idle"
  /\ call' = [op |-> "classify", tv |-> [t |-> "Undefined", els |-> <<>>], arg |-> v]
  /\ result' = [thrown |-> FALSE,
                val |-> [isExpandable |-> isExpandable(v), sizeOf |-> sizeOf(heap, v)]]
  /\ pc' = "done"
  /\ UNCHANGED <<heap, depth_limit, suppress_fns, renders, rows, stack, memo, padding, dom>>

ClassifyNext ==
  \/ \E lim \in LimArgs : SetDepthLimit(lim)
  \/ ShowFns
  \/ HideFns
  \/ \E v \in Roots : Classify(v)
  \/ Return

ClassifySpec == Init /\ [][ClassifyNext]_vars

ErrNext ==
  \/ \E lim \in LimArgs : SetDepthLimit(lim)
  \/ ShowFns
  \/ HideFns
  \/ \E obj \in ErrArgs, options \in Options : Adapt(obj, options)
  \/ Invoke
  \/ Release

ErrSpec == Init /\ [][ErrNext]_vars

Next ==
  \/ \E lim \in LimArgs : SetDepthLimit(lim)
  \/ ShowFns
  \/ HideFns
  \/ \E tvArray \in TvArrays : CreateContent(tvArray)
  \/ \E title \in Titles, val \in Roots : ShowObject(title, val)
  \/ Return

Spec == Init /\ [][Next]_vars

(***************************************************************************)
(* Properties                                                              *)
(***************************************************************************)
TypeOK ==
  /\ pc \in {"idle", "adapted", "done", "running", "loaded"}
  /\ suppress_fns \in BOOLEAN
  /\ isNumeric(depth_limit) /\ depth_limit.twice >= 2
  /\ \A n \in DOMAIN heap : \A i \in 1..Len(heap[n].kids) :
       LET val == heap[n].kids[i].val
       IN  val.ref # 0 => val.ref \in DOMAIN heap /\ heap[val.ref].t = val.t
  /\ \A i \in DOMAIN dom : dom[i] \in {"", "none", "block"}

\* the row r holds a nonempty expandable value
NonemptyRow(r) == ~r.dropped /\ isExpandable(r.val) /\ sizeOf(heap, r.val) > 0

\* the truncated placeholder of the kind of v
Truncated(v) == MkStr(<<Txt(IF v.t = "Array" THEN "[...]" ELSE "{...}")>>)

\* the row r shows its value truncated and without a control
ShownTruncated(r) == r.vc = Truncated(r.val) /\ r.tc = <<Txt(r.val.t)>>

\* C1 as amended: a nonempty expandable value that is the value of a row
\* (array element, property value, map value) at depth d >= depthLimit + 1,
\* d being one more than the depth of the table that holds the row, is
\* shown as exactly the truncated placeholder of its kind, with the plain
\* kind name and no control in the type cell, and render_value is never
\* called on it.
C1_TruncatedPastLimit ==
  /\ \A r \in rows :
       NonemptyRow(r) /\ 2 * (r.depth + 1) >= depth_limit.twice + 2 => ShownTruncated(r)
  /\ \A x \in renders :
       isExpandable(x.v) /\ sizeOf(heap, x.v) > 0 => 2 * x.depth < depth_limit.twice + 2

\* C1 as stated: truncation at every depth d >= depthLimit
C1_Original ==
  \A r \in rows :
    NonemptyRow(r) /\ 2 * (r.depth + 1) >= depth_limit.twice => ShownTruncated(r)

\* an Array and an Object are shown truncated in one pass
C1_Witness ==
  /\ pc = "done"
  /\ \E r \in rows : NonemptyRow(r) /\ r.val.t = "Array" /\ r.vc = Truncated(r.val)
                       /\ 2 * (r.depth + 1) >= depth_limit.twice + 2
  /\ \E r \in rows : NonemptyRow(r) /\ r.val.t # "Array" /\ r.vc = Truncated(r.val)

(***************************************************************************)
(* The value graph unfolded from the top-level values of the pass: an      *)
(* occurrence is a value v reached by k steps along array elements,        *)
(* property values and map values, with the node id of that path.          *)
(***************************************************************************)
Occ(v, name, k) == [v |-> v, name |-> name, k |-> k]

KidsOcc(h, o) ==
  IF isExpandable(o.v) /\ ~isSet(o.v)
  THEN {Occ(h[o.v.ref].kids[i].val, this_prop_name(o.name, h[o.v.ref].kids[i].key), o.k + 1) :
          i \in 1..Len(h[o.v.ref].kids)}
  ELSE {}

RECURSIVE Unfold(_, _, _)
Unfold(h, frontier, levels) ==
  IF levels = 0 \/ frontier = {} THEN frontier
  ELSE frontier \cup Unfold(h, UNION {KidsOcc(h, o) : o \in frontier}, levels - 1)

\* the occurrences of the last pass, three levels past the depth limit
Occurrences ==
  Unfold(heap,
         {Occ(call.tv.els[i].value, obj_name_of(hdr_of(suppress_fns, call.tv.els[i].title)), 0) :
            i \in 1..Len(call.tv.els)},
         (depth_limit.twice \div 2) + 3)

NonemptyOcc == {o \in Occurrences : isExpandable(o.v) /\ sizeOf(heap, o.v) > 0}

\* o is rendered in full: render_value built its table and a row call was
\* made for each of its entries
InFull(o) ==
  /\ \E x \in renders : /\ x.v = o.v /\ x.name = o.name /\ x.depth = o.k
                        /\ Open("table") \in Range(x.out.s)
  /\ \A i \in 1..Len(heap[o.v.ref].kids) :
       \E r \in rows : /\ r.parent = o.name /\ r.depth = o.k
                       /\ r.key = heap[o.v.ref].kids[i].key

\* o is shown as the truncation placeholder
AsPlaceholder(o) ==
  /\ \E r \in rows : /\ r.val = o.v /\ r.name = o.name /\ r.depth + 1 = o.k
                     /\ ShownTruncated(r)
  /\ ~\E x \in renders : x.v = o.v /\ x.name = o.name /\ x.depth = o.k

\* o is never visited: no call is made on it or on any of its entries
NeverVisited(o) ==
  /\ ~\E x \in renders : x.name = o.name /\ x.depth = o.k
  /\ ~\E r \in rows : r.name = o.name /\ r.depth + 1 = o.k
  /\ ~\E r \in rows : r.parent = o.name /\ r.depth = o.k

\* C2: a nonempty expandable value k levels below the top-level value (along
\* array elements, property values and map values) with k < depthLimit is
\* rendered in full as a nested table.
C2_FullBelowLimit ==
  (pc = "done" /\ isArray(call.tv)) =>
    \A o \in NonemptyOcc : 2 * o.k < depth_limit.twice => InFull(o)

\* in a pass that raises nothing the accounting holds with every threshold
\* one level up: in full iff k < depthLimit + 1, the truncation placeholder
\* iff depthLimit + 1 <= k < depthLimit + 2, never visited iff
\* k >= depthLimit + 2
AccountingOfCompletePass ==
  (pc = "done" /\ isArray(call.tv) /\ ~result.thrown) =>
    \A o \in NonemptyOcc :
      /\ InFull(o) <=> 2 * o.k < depth_limit.twice + 2
      /\ AsPlaceholder(o) <=> (depth_limit.twice + 2 <= 2 * o.k /\ 2 * o.k < depth_limit.twice + 4)
      /\ NeverVisited(o) <=> 2 * o.k >= depth_limit.twice + 4

(***************************************************************************)
(* Termination and the bound on nesting                                    *)
(***************************************************************************)
RECURSIVE Tables(_, _, _)
\* the tables of str[lo..hi]: how many stay open at the end (net) and the
\* largest number open at once (max), by halving the range
Tables(str, lo, hi) ==
  IF lo > hi THEN [net |-> 0, max |-> 0]
  ELSE IF lo = hi
       THEN IF str[lo] = Open("table") THEN [net |-> 1, max |-> 1]
            ELSE IF str[lo] = Close("table") THEN [net |-> -1, max |-> 0]
            ELSE [net |-> 0, max |-> 0]
  ELSE LET mid == (lo + hi) \div 2
           a   == Tables(str, lo, mid)
           b   == Tables(str, mid + 1, hi)
       IN  [net |-> a.net + b.net,
            max |-> IF a.net + b.max > a.max THEN a.net + b.max ELSE a.max]

TableNesting(str) == Tables(str, 1, Len(str)).max

\* the calls that build a table stay within one level of the depth limit
FramesBounded ==
  \A i \in 1..Len(stack) :
    (stack[i].fn = "render_value" /\ isExpandable(stack[i].v) /\ sizeOf(heap, stack[i].v) > 0)
      => 2 * stack[i].depth < depth_limit.twice + 2

\* at most depthLimit + 1 tables are nested (depthLimit + 1.5 for a limit
\* that is not whole)
NestingBounded ==
  (pc = "done" /\ ~result.thrown) => 2 * TableNesting(result.val.s) <= depth_limit.twice + 3

\* C3: for every value graph, cyclic ones included, and every finite depth
\* limit a render call terminates, and the number of nested tables is at
\* most depthLimit + 1, whatever the graph.
C3_Terminates ==
  /\ [](FramesBounded /\ NestingBounded)
  /\ (pc = "running") ~> (pc = "done")

\* a cyclic object has been rendered down to the bound
C3_Witness ==
  /\ pc = "done" /\ ~result.thrown
  /\ \E i \in 1..Len(call.tv.els) :
       LET v == call.tv.els[i].value
       IN  /\ v.ref # 0
           /\ \E j \in 1..Len(heap[v.ref].kids) : heap[v.ref].kids[j].val = v
  /\ 2 * TableNesting(result.val.s) = depth_limit.twice + 2

(***************************************************************************)
(* Failure, functions, scalars, empty containers                           *)
(***************************************************************************)
\* C4: for every input value and every kind of child anywhere in the tree
\* the entry points return a markup string and never raise.
C4_NeverRaises ==
  pc = "done" => ~result.thrown /\ typeOf(result.val) = "String"

\* the tags typeOf gives to ordinary, generator and async functions
FunctionTags == {"Function", "GeneratorFunction", "AsyncFunction"}

SourceSuppressed == MkStr(<<Txt("Source code suppressed")>>)

\* C5: with function suppression on, every function-typed value at any
\* position (top-level value, property, element, map key or value, set
\* element; ordinary, generator or async) is rendered as the literal text
\* "Source code suppressed", and no function's source text is in the output.
C5_FunctionsSuppressed ==
  (pc = "done" /\ suppress_fns /\ ~result.thrown) =>
    /\ \A i \in 1..Len(result.val.s) : result.val.s[i] \notin FnSources
    /\ \A x \in renders : x.v.t \in FunctionTags => x.out = SourceSuppressed
    /\ \A r \in rows : r.val.t \in FunctionTags => ~r.dropped /\ r.vc = SourceSuppressed

\* C6: for every non-expandable, non-function value v and every depth d,
\* render_value(v, id, d) returns v itself, unchanged: the result depends
\* neither on d, nor on the id, nor on the depth limit.
C6_ScalarsUnchanged ==
  \A x \in renders : ~isExpandable(x.v) /\ x.v.t \notin FunctionTags => x.out = x.v

\* one scalar has been rendered at two depths under two ids, with a depth
\* limit that is not the initial one
C6_Witness ==
  /\ pc = "done" /\ depth_limit.twice # 6
  /\ \E x, y \in renders :
       /\ ~isExpandable(x.v) /\ x.v.t \notin FunctionTags
       /\ y.v = x.v /\ y.depth # x.depth /\ y.name # x.name
       /\ x.out = x.v /\ y.out = x.v

\* C7: for every expandable value v with no children, at every depth, the
\* top level included, rendering v gives exactly the empty placeholder of
\* its kind ("[]" for an Array, "{}" otherwise) with no markup around it.
C7_EmptyPlaceholder ==
  /\ \A x \in renders :
       isExpandable(x.v) /\ sizeOf(heap, x.v) = 0 => x.out = MkStr(empty_placeholder(x.v))
  /\ \A r \in rows :
       (~r.dropped /\ ~r.keyOnly /\ isExpandable(r.val) /\ sizeOf(heap, r.val) = 0)
         => r.vc = MkStr(empty_placeholder(r.val))

(***************************************************************************)
(* Rows, columns and headings of a table                                   *)
(***************************************************************************)
\* the render call x built a table
BuiltTable(x) == isExpandable(x.v) /\ sizeOf(heap, x.v) > 0

\* the calls of make_table_row_from_prop made for the table of x
TableRows(x) == {r \in rows : r.obj = x.v /\ r.parent = x.name /\ r.depth = x.depth}

\* the row calls of the table of x follow the enumeration of its kind
Enumerated(x) ==
  LET kids == heap[x.v.ref].kids
      rs   == TableRows(x)
  IN  /\ Cardinality(rs) = Len(kids)
      /\ {r.idx : r \in rs} = 1..Len(kids)
      /\ CASE isArray(x.v) ->
                \A r \in rs : r.key.s = <<Ch(Digits[r.idx])>> /\ r.val = kids[r.idx].val
           [] isMap(x.v) ->
                \A r \in rs : r.key = kids[r.idx].key /\ r.val = kids[r.idx].val
           [] isSet(x.v) ->
                \A r \in rs : r.key = kids[r.idx].key
           [] OTHER ->
                /\ {<<r.key, r.val>> : r \in rs}
                     = {<<kids[i].key, kids[i].val>> : i \in 1..Len(kids)}
                /\ \A r1, r2 \in rs : r1.idx < r2.idx => StrLess(r1.key.s, r2.key.s)

\* the row r shows its key, the name of its kind and its rendered value; a Set
\* row shows the element alone
RowShows(r) ==
  IF r.keyOnly
  THEN r.out = MkStr(as_tr(<<>>, MkStr(as_td(td_class, r.key))))
  ELSE /\ r.out = MkStr(as_tr(<<>>, MkStr(as_td(td_class, r.key)
                                            \o as_td(td_class, MkStr(r.tc))
                                            \o as_td(td_class, r.vc))))
       /\ Txt(r.val.t) \in Range(r.tc)
       /\ isExpandable(r.val) \/ r.val.t \in FunctionTags \/ r.vc = r.val

RECURSIVE RowsFrom(_, _, _)
\* the rows of rs from position i to n, those left out skipped
RowsFrom(rs, i, n) ==
  IF i > n THEN <<>>
  ELSE (LET r == CHOOSE q \in rs : q.idx = i
        IN  IF r.dropped THEN <<>> ELSE r.out.s) \o RowsFrom(rs, i + 1, n)

\* the table of x is its header row followed by the rows of rs in call order
TableOf(x, rs) ==
  x.out = MkStr(make_collapsible_div(x.name,
                  make_table_hdr_row(columnHeadings(typeOf(x.v)), x.depth, isSet(x.v))
                    \o RowsFrom(rs, 1, Cardinality(rs)),
                  x.depth))

\* C8: every table has exactly one data row per child, sizeOf(value) rows,
\* in the order of the kind's enumeration: Array by index 0..n-1, Object by
\* sorted key, Map and Set by insertion; a row shows the key, the kind name
\* and the rendered value (a Set row the element alone).
C8_RowPerChild ==
  \A x \in renders :
    BuiltTable(x) =>
      /\ Enumerated(x)
      /\ \A r \in TableRows(x) : ~r.dropped /\ RowShows(r)
      /\ TableOf(x, TableRows(x))

\* the number of tokens tok in str
Count(str, tok) == Cardinality({i \in 1..Len(str) : str[i] = tok})

\* the header row of a table: from the first <tr to the first </tr>
HeaderRow(str) ==
  LET a == CHOOSE i \in 1..Len(str) : str[i] = Open("tr")
      b == CHOOSE i \in 1..Len(str) : str[i] = Close("tr")
  IN  SubSeq(str, a, b)

\* the cells of the row r itself, those of the tables inside its value apart
Cells(r) == Count(r.out.s, Open("td")) - Count(Str(r.vc), Open("td"))

\* C9: a nonempty Set is rendered as a key-only table, with one header
\* column and one cell per row, holding the element; every other kind gets
\* three header columns and three cells per row.  (A row call that raised
\* TypeError on its key returned no row.)
C9_SetKeyOnly ==
  /\ \A x \in renders :
       BuiltTable(x) =>
         Count(HeaderRow(x.out.s), Open("th")) = (IF isSet(x.v) THEN 1 ELSE 3)
  /\ \A r \in rows :
       (~r.dropped /\ ~r.thrown) =>
         /\ Cells(r) = (IF isSet(r.obj) THEN 1 ELSE 3)
         /\ isSet(r.obj) => r.out = MkStr(as_tr(<<>>, MkStr(as_td(td_class, r.key))))

\* a Set inside a Map and the Map itself have been rendered
C9_Witness ==
  /\ pc = "done" /\ ~result.thrown
  /\ \E x, y \in renders :
       /\ BuiltTable(x) /\ isSet(x.v) /\ x.depth > 0 /\ Cardinality(TableRows(x)) = 2
       /\ BuiltTable(y) /\ isMap(y.v)
       /\ \E r \in TableRows(y) : r.val = x.v

\* the text of the first heading of a table
FirstHeading(str) ==
  LET b == CHOOSE i \in 1..Len(str) : str[i] = Close("th")
  IN  str[b - 1].v

\* C10: the first heading of every table is decided by the kind of the
\* container alone: "Index" for an Array, "Key" for a Map or Set and
\* "Property" for every other expandable kind; [1,2,3] gives the heading
\* "Index" and the rows 0, 1, 2 with the values 1, 2, 3.
C10_HeadingByKind ==
  \A x \in renders :
    BuiltTable(x) =>
      /\ FirstHeading(x.out.s) = (CASE x.v.t = "Array" -> "Index"
                                    [] x.v.t \in {"Map", "Set"} -> "Key"
                                    [] OTHER -> "Property")
      /\ x.v = ValOf(heap, 5) =>
           {<<r.key.s, r.vc>> : r \in TableRows(x)}
             = {<<Lit(<<"0">>), Num("1")>>, <<Lit(<<"1">>), Num("2")>>, <<Lit(<<"2">>), Num("3")>>}

\* [1,2,3], a Set and the process object have been rendered in one state of
\* the program's life, each under its heading
C10_Witness ==
  /\ pc = "done" /\ ~result.thrown
  /\ \E x \in renders :
       /\ x.v = ValOf(heap, 5) /\ x.depth = 0
       /\ FirstHeading(x.out.s) = "Index"
       /\ Cardinality(TableRows(x)) = 3

(***************************************************************************)
(* Node identifiers                                                        *)
(***************************************************************************)
\* the node a row call is made for: the table and the position in it
NodeOf(r) == <<r.obj, r.parent, r.depth, r.idx>>

\* C11: every child id is lowercase(parentId + "-" + key), and any two
\* distinct nodes of a rendered fragment have different ids: siblings of
\* one parent, nodes under different parents, nodes under different titles.
C11_UniqueIds ==
  /\ \A r \in rows : r.name = toLowerCase(r.parent \o <<Ch("-")>> \o Str(r.key))
  /\ \A r1, r2 \in rows : NodeOf(r1) # NodeOf(r2) => r1.name # r2.name
  /\ \A x, y \in renders : BuiltTable(x) /\ BuiltTable(y) /\ x.name = y.name => x = y

(***************************************************************************)
(* The nested example                                                      *)
(***************************************************************************)
\* show_object has returned the rendering of the object at address n
Shown(n) ==
  /\ pc = "done" /\ ~result.thrown /\ call.op = "show_object"
  /\ call.tv.els[1].value = ValOf(heap, n)

\* the rows of the pass whose key is the one-letter name c
RowsOfKey(c) == {r \in rows : r.key = Key(<<c>>)}

\* the row r shows its value as a nested table behind an expand control
ShownExpanded(r) ==
  /\ ~r.dropped
  /\ Open("button") \in Range(r.tc)
  /\ r.vc.t = "String" /\ Open("table") \in Range(r.vc.s)
  /\ \E x \in renders : x.v = r.val /\ x.name = r.name /\ x.depth = r.depth + 1 /\ x.out = r.vc

\* C12: {a: {b: {c: {d: 1}}}} rendered with depth limit 2 shows the value of
\* a and the value of b as expandable nested tables and the value of c as
\* exactly "{...}" with no control; neither the key d nor its value 1 is
\* rendered anywhere.
C12_NestedExample ==
  (Shown(31) /\ depth_limit.twice = 4) =>
    /\ \E r \in RowsOfKey("a") : r.depth = 0 /\ r.val = ValOf(heap, 32)
    /\ \A r \in RowsOfKey("a") : ShownExpanded(r)
    /\ \E r \in RowsOfKey("b") : r.depth = 1 /\ r.val = ValOf(heap, 33)
    /\ \A r \in RowsOfKey("b") : ShownExpanded(r)
    /\ \E r \in RowsOfKey("c") : r.depth = 2 /\ r.val = ValOf(heap, 34)
    /\ \A r \in RowsOfKey("c") : ShownTruncated(r) /\ Open("button") \notin Range(r.tc)
    /\ RowsOfKey("d") = {}
    /\ \A x \in renders : x.v # Num("1") /\ x.v # ValOf(heap, 34)
    /\ Ch("d") \notin Range(result.val.s)

\* the example has been rendered with the limit set to 2
C12_Witness ==
  /\ Shown(31) /\ depth_limit = Lim("Number", 4, "finite")
  /\ Cardinality(rows) = 3

(***************************************************************************)
(* Functions while suppression is off                                      *)
(***************************************************************************)
\* C13 as amended: with suppression switched off a Function or
\* GeneratorFunction value is still rendered as "Source code suppressed", not
\* as its own string form; the placeholder is emitted only when the value is
\* a function, whether suppression is on or off.
C13_PlaceholderWhateverFlag ==
  \A x \in renders :
    /\ (~suppress_fns /\ isFunction(x.v)) => x.out = SourceSuppressed
    /\ x.out = SourceSuppressed => x.v.t \in FunctionTags

\* C13 as stated: with suppression off a function is rendered as its own
\* string form, and the placeholder needs suppression to be on
C13_Original ==
  \A x \in renders :
    /\ (~suppress_fns /\ x.v.t \in FunctionTags) => x.out = x.v
    /\ x.out = SourceSuppressed => suppress_fns /\ x.v.t \in FunctionTags

\* with suppression off, the rows of a function and of a generator function
\* are shown with the placeholder
C13_Witness ==
  /\ pc = "done" /\ ~result.thrown /\ ~suppress_fns
  /\ \E r1, r2 \in rows :
       /\ r1.val = Fn /\ r2.val = GenFn /\ r1.obj = r2.obj
       /\ ~r1.dropped /\ r1.vc = SourceSuppressed /\ r2.vc = SourceSuppressed

(***************************************************************************)
(* Determinism                                                             *)
(***************************************************************************)
\* the render that has just finished repeats the one kept in memo
Repeats ==
  /\ pc = "done" /\ memo # NoMemo
  /\ call = memo.call /\ depth_limit = memo.lim /\ suppress_fns = memo.sup

WholeAtLeastOne(lim) ==
  /\ lim.t \in {"Number", "BigInt"} /\ lim.cls = "finite"
  /\ lim.twice >= 2 /\ lim.twice % 2 = 0

\* C15: after any sequence of set_depth_limit calls, whatever their
\* arguments (negative, zero, not whole, NaN, not a number, null,
\* undefined), get_depth_limit returns an integer >= 1: an invalid argument
\* leaves the limit as it was.
C15_IntegerLimit == WholeAtLeastOne(depth_limit)

(***************************************************************************)
(* The fragment create_content gives back                                  *)
(***************************************************************************)
\* x is the record of the render call for pair i of the call
TopOf(x, i) ==
  /\ x.v = call.tv.els[i].value /\ x.depth = 0
  /\ x.name = obj_name_of(hdr_of(suppress_fns, call.tv.els[i].title))

\* the render call for pair i was made: no earlier pair ended the call by raising
IsTopRender(i) == \E x \in renders : TopOf(x, i)

\* the render call made for pair i of the call
TopRender(i) == CHOOSE x \in renders : TopOf(x, i)

\* the titled block of pair i: a heading with title i, then the rendering of value i
TitledBlock(i) ==
  <<Open("div"), Txt(" "), Attr("class='bfu-content'"), Gt,
    Open("h2"), Txt(" "), Attr("class='bfu-header2'"), Gt>>
    \o Lit(call.tv.els[i].title)
    \o (IF suppress_fns THEN <<Txt(" (Functions suppressed)")>> ELSE <<>>)
    \o <<Close("h2")>>
    \o JoinEl(TopRender(i).out)
    \o <<Close("div")>>

StyleBlock == <<Open("style"), Gt, Txt("bfu-style.css"), Close("style")>>

ClientScript ==
  <<Open("script"), Gt, Txt("image_src_data"), Close("script"),
    Open("script"), Txt(" "), Attr("type='text/javascript'"), Gt,
    Txt("expand_collapse.js"), Close("script")>>

PlaceholderBlock ==
  <<Open("div"), Gt, Txt("Nothing to see here.  Move along..."), Close("div")>>

\* C16: create_content given a non-empty list of n (title, value) pairs
\* returns one fragment holding, in this order, the stylesheet block, exactly
\* n titled blocks in input order (block i carries title i and the rendering
\* of value i at depth 0), and the client script; given an empty list, null,
\* undefined or a non-array it returns the placeholder block and renders
\* nothing.  (A pair whose block raises ends the call: the pairs after it are
\* not rendered and the call raises.)
C16_FragmentLayout ==
  pc = "done" =>
    IF isArray(call.tv) /\ Len(call.tv.els) > 0
    THEN IF \A i \in 1..Len(call.tv.els) : IsTopRender(i)
         THEN result = Outcome(<<Open("div"), Gt>> \o StyleBlock
                                 \o Concat([i \in 1..Len(call.tv.els) |-> TitledBlock(i)])
                                 \o ClientScript \o <<Close("div")>>)
         ELSE result.thrown
    ELSE /\ result = [thrown |-> FALSE, val |-> MkStr(PlaceholderBlock)]
         /\ renders = {} /\ rows = {}

\* create_content has returned the fragment of two different pairs
C16_Witness ==
  /\ pc = "done" /\ call.op = "create_content" /\ ~result.thrown
  /\ isArray(call.tv) /\ Len(call.tv.els) = 2
  /\ call.tv.els[1].title # call.tv.els[2].title
  /\ isExpandable(call.tv.els[1].value) /\ ~isExpandable(call.tv.els[2].value)
  /\ Count(result.val.s, Attr("class='bfu-content'")) = 2

(***************************************************************************)
(* The adaptation of error-like values                                     *)
(***************************************************************************)
\* the object dumpableError returned
Adapted == heap[call.tv.els[1].value.ref]

\* the adapted object holds the own properties of e, all enumerable, with
\* e's values, stack being the array of the lines of e.stack
AdaptedAsClaimed(e) ==
  LET own == OwnProps(Heap0, e)
  IN  /\ call.tv.els[1].value.ref \notin DOMAIN Heap0
      /\ Adapted.t = "Object"
      /\ Len(Adapted.kids) = Len(own)
      /\ \A i \in 1..Len(own) :
           /\ Adapted.kids[i].key = own[i].key
           /\ own[i].key # StackKey => Adapted.kids[i].val = own[i].val
           /\ own[i].key = StackKey =>
                LET a == Adapted.kids[i].val
                IN  /\ isArray(a) /\ a.ref \notin DOMAIN Heap0
                    /\ JoinWith([k \in 1..Len(heap[a.ref].kids) |-> heap[a.ref].kids[k].val.s],
                                <<NL>>) = Get(Heap0, e, StackKey).s
                    /\ \A k \in 1..Len(heap[a.ref].kids) :
                         /\ typeOf(heap[a.ref].kids[k].val) = "String"
                         /\ NL \notin Range(heap[a.ref].kids[k].val.s)

\* C17: for every error-like value e (truthy string message and truthy
\* string stack), the adaptation step of objectToHtml hands the renderer a
\* new plain object whose enumerable properties are exactly e's own property
\* names with e's values, except stack, which is the sequence of the lines of
\* e.stack in their original order (joining them with a newline gives
\* e.stack back); the adaptation completes before the renderer is invoked and
\* e itself is not modified.
C17_ErrorAdapted ==
  (pc \in {"adapted", "done"} /\ isError(Heap0, call.arg)) =>
    /\ ~result.thrown
    /\ AdaptedAsClaimed(call.arg)
    /\ pc = "adapted" => renders = {} /\ rows = {}
    /\ pc = "done" => \E x \in renders : x.depth = 0 /\ x.v = call.tv.els[1].value
    /\ \A a \in DOMAIN Heap0 : heap[a] = Heap0[a]

\* the same for the error-like values whose stack is an own property
C17_OwnStack ==
  (pc \in {"adapted", "done"} /\ isError(Heap0, call.arg)
     /\ typeOf(Lookup(OwnProps(Heap0, call.arg), StackKey)) = "String") =>
    /\ ~result.thrown
    /\ AdaptedAsClaimed(call.arg)
    /\ pc = "adapted" => renders = {} /\ rows = {}
    /\ pc = "done" => \E x \in renders : x.depth = 0 /\ x.v = call.tv.els[1].value
    /\ \A a \in DOMAIN Heap0 : heap[a] = Heap0[a]

\* an Error with three stack lines and two more properties has been adapted and rendered
C17_OwnStackWitness ==
  /\ pc = "done" /\ ~result.thrown /\ call.arg = ValOf(Heap0, 36)
  /\ Len(Adapted.kids) = 4
  /\ Len(heap[Adapted.kids[1].val.ref].kids) = 3

(***************************************************************************)
(* null and undefined children                                             *)
(***************************************************************************)
\* the row r ends with a value cell that holds the string str
ValueCellShows(r, str) ==
  LET o == r.out.s
      n == Len(o)
  IN  /\ n >= Len(str) + 2
      /\ o[n] = Close("tr") /\ o[n - 1] = Close("td")
      /\ SubSeq(o, n - 1 - Len(str), n - 2) = str

\* C18: a child whose value is null or undefined is displayed as its string
\* form ("null", "undefined") in the value cell of its row, with type Null
\* or Undefined, and rendering it never raises.
C18_NullShown ==
  \A r \in rows :
    (~r.keyOnly /\ isNullOrUndef(r.val)) =>
      /\ ~r.dropped
      /\ r.tc = <<Txt(r.val.t)>>
      /\ Poison \notin Range(r.out.s)
      /\ ValueCellShows(r, r.val.s)

(***************************************************************************)
(* The classifier                                                          *)
(***************************************************************************)
\* the kinds the renderer descends into
ExpandableKinds == {"Array", "Map", "Set", "Object", "process", "global"}

\* the number of children of the container v
ChildCount(v) == Cardinality(DOMAIN heap[v.ref].kids)

\* C19: isExpandable(v) is true exactly for Array, Map, Set and Object-like
\* kinds (the process and global singletons included) and false for every
\* other kind; sizeOf(v) is the child count for expandable kinds and 0 for
\* every other kind, null, undefined, NaN and Symbol included, and it never
\* raises.
C19_Classifier ==
  (pc = "done" /\ call.op = "classify") =>
    /\ ~result.thrown
    /\ result.val.isExpandable = (call.arg.t \in ExpandableKinds)
    /\ result.val.sizeOf = (IF call.arg.t \in ExpandableKinds THEN ChildCount(call.arg) ELSE 0)

\* a Set of two elements has been classified
C19_Witness ==
  /\ pc = "done" /\ call.op = "classify"
  /\ call.arg = ValOf(Heap0, 8)
  /\ result.val = [isExpandable |-> TRUE, sizeOf |-> 2]

(***************************************************************************)
(* obj_to_str of lib.js                                                    *)
(***************************************************************************)
\* the number of objects that are open at position i of the string str
Level(str, i) ==
  Cardinality({j \in 1..(i - 1) : str[j] = Txt("{")})
    - Cardinality({j \in 1..(i - 1) : str[j] = Txt("}")})

\* C20: obj_to_str gives a depth-limited string for an object with circular
\* references: it terminates, every Object-typed property reached at depth
\* = depth_limit is replaced by "{...}" and nothing deeper is shown; the
\* limit is 2 at the start and the one given to set_depth_limit afterwards.
C20_DepthLimited ==
  (pc = "done" /\ call.op = "obj_to_str") =>
    /\ result # [thrown |-> TRUE, val |-> MkStr(<<Txt("RangeError")>>)]
    /\ (~result.thrown /\ typeOf(result.val) = "String") =>
         \A i \in 1..Len(result.val.s) :
           /\ result.val.s[i] = Txt("{...}") => 2 * Level(result.val.s, i) = depth_limit.twice
           /\ result.val.s[i] = Txt("{") => 2 * Level(result.val.s, i) < depth_limit.twice

\* the same while the limit is a whole number
C20_WholeLimit ==
  (pc = "done" /\ call.op = "obj_to_str" /\ depth_limit.t = "Number"
     /\ depth_limit.twice % 2 = 0) =>
    /\ result # [thrown |-> TRUE, val |-> MkStr(<<Txt("RangeError")>>)]
    /\ (~result.thrown /\ typeOf(result.val) = "String") =>
         \A i \in 1..Len(result.val.s) :
           /\ result.val.s[i] = Txt("{...}") => 2 * Level(result.val.s, i) = depth_limit.twice
           /\ result.val.s[i] = Txt("{") => 2 * Level(result.val.s, i) < depth_limit.twice

\* a cyclic object has been cut at the limit 3
C20_WholeLimitWitness ==
  /\ pc = "done" /\ call.op = "obj_to_str" /\ call.arg = ValOf(Heap0, 10)
  /\ depth_limit = Lim("Number", 6, "finite") /\ ~result.thrown
  /\ Cardinality({i \in 1..Len(result.val.s) : result.val.s[i] = Txt("{")}) = 3
  /\ Cardinality({i \in 1..Len(result.val.s) : result.val.s[i] = Txt("{...}")}) = 1

(***************************************************************************)
(* Expand and collapse controls of a row                                   *)
(***************************************************************************)
\* sub occurs in str
HasSub(str, sub) ==
  \E i \in 1..(Len(str) - Len(sub) + 1) : SubSeq(str, i, i + Len(sub) - 1) = sub

\* the control of the given direction and action that addresses the node id
ControlFor(str, id, direction, action) ==
  /\ HasSub(str, <<Attr("id='")>> \o id \o <<Attr("-arrow-"), Txt(direction), Attr("'")>>)
  /\ HasSub(str, <<Attr("onclick=\""), Txt(action), Attr("('")>> \o id \o <<Attr("')\"")>>)

\* the type cell holds an expand control and a collapse control for the node id
HasControls(str, id) ==
  /\ Count(str, Open("button")) = 2
  /\ ControlFor(str, id, "right", "expand")
  /\ ControlFor(str, id, "down", "collapse")

\* the row r holds a nonempty expandable child within the depth budget
WithinBudget(r) ==
  /\ r.val.t \in ExpandableKinds /\ ChildCount(r.val) > 0
  /\ 2 * r.depth < depth_limit.twice

\* C21: in every data row the type cell holds an expand control and a paired
\* collapse control, both addressing the node id of the child, exactly when
\* the child is expandable, nonempty and within the depth budget; in every
\* other case (scalar, empty container, container beyond the budget) it
\* holds the plain kind name and no control.  (A row call that raised
\* TypeError on its key built no cell.)
C21_ControlsWhenExpandable ==
  \A r \in rows :
    (~r.dropped /\ ~r.keyOnly /\ ~r.thrown) =>
      IF WithinBudget(r)
      THEN HasControls(r.tc, r.name) /\ HasSub(r.out.s, r.tc)
      ELSE r.tc = <<Txt(r.val.t)>> /\ Count(r.out.s, Open("button")) = 0

\* one pass has made a row with controls, a row for an empty container and a
\* row for a container beyond the budget
C21_Witness ==
  /\ pc = "done" /\ ~result.thrown
  /\ \E r1, r2, r3 \in rows :
       /\ ~r1.keyOnly /\ WithinBudget(r1) /\ HasControls(r1.tc, r1.name)
       /\ ~r2.keyOnly /\ r2.val.t \in ExpandableKinds /\ ChildCount(r2.val) = 0
       /\ r2.tc = <<Txt(r2.val.t)>>
       /\ ~r3.keyOnly /\ r3.val.t \in ExpandableKinds /\ ChildCount(r3.val) > 0
       /\ 2 * r3.depth >= depth_limit.twice /\ r3.tc = <<Txt(r3.val.t)>>

(***************************************************************************)
(* The depth handed down the recursion                                     *)
(***************************************************************************)
\* a child is rendered one deeper than the table that holds its row
ChildOneDeeper ==
  /\ \A r \in rows :
       \E x \in renders : x.v = r.obj /\ x.name = r.parent /\ x.depth = r.depth
  /\ \A x \in renders :
       x.depth > 0 =>
         \E r \in rows : r.val = x.v /\ r.name = x.name /\ x.depth = r.depth + 1

\* C22: the depth passed through the recursion is parent depth + 1 for every
\* child, and no render call for an expandable value is ever made with a
\* depth greater than depthLimit.
C22_NeverPastLimit ==
  (pc = "done" /\ isArray(call.tv)) =>
    /\ ChildOneDeeper
    /\ \A x \in renders : isExpandable(x.v) => 2 * x.depth <= depth_limit.twice

\* while the limit is a whole number no render call for an expandable value
\* is made past it
WholeLimitNeverPassed ==
  (pc = "done" /\ isArray(call.tv) /\ depth_limit.twice % 2 = 0) =>
    /\ ChildOneDeeper
    /\ \A x \in renders : isExpandable(x.v) => 2 * x.depth <= depth_limit.twice

(***************************************************************************)
(* The container of a table                                                *)
(***************************************************************************)
\* str starts with pre
StartsWith(str, pre) == Len(str) >= Len(pre) /\ SubSeq(str, 1, Len(pre)) = pre

\* the opening tag of a container with the given id, hidden or not
ContainerTag(id, hidden) ==
  <<Open("div"), Txt(" "), Attr("id=\"")>> \o id \o <<Attr("-content\""), Txt(" ")>>
    \o (IF hidden THEN <<Attr("style='display:none'")>> ELSE <<>>)
    \o <<Gt, Open("table")>>

\* C23: the container that wraps the table of a rendered expandable value
\* carries the id nodeId + "-content" and is emitted hidden (display:none)
\* iff its depth is not 0: every top-level table starts visible and every
\* nested table starts hidden.
C23_HiddenUnlessTop ==
  \A x \in renders :
    isExpandable(x.v) =>
      /\ StartsWith(x.out.s, ContainerTag(x.name, x.depth # 0))
      /\ x.out.s[Len(x.out.s)] = Close("div")
      /\ (~result.thrown /\ typeOf(result.val) = "String") => HasSub(result.val.s, x.out.s)

\* a top-level table and a table nested in it have been rendered
C23_Witness ==
  /\ pc = "done" /\ ~result.thrown
  /\ \E x, y \in renders :
       /\ BuiltTable(x) /\ x.depth = 0 /\ BuiltTable(y) /\ y.depth = 1
       /\ Count(x.out.s, Attr("style='display:none'"))
            = Count(x.out.s, Open("table")) - 1 + Count(x.out.s, Attr("id='")) \div 2
       /\ StartsWith(y.out.s, ContainerTag(y.name, TRUE))

(***************************************************************************)
(* Side effects of a render pass                                           *)
(***************************************************************************)
\* C24: a render pass has no side effect: the depth limit and the
\* suppress-functions flag have the same values after the pass as before it,
\* and the rendered value graph is not mutated (sorting the keys of an object
\* for display does not reorder or change the object, its arrays, maps or
\* sets).
C24_NoSideEffect ==
  [][(pc = "idle" /\ pc' = "done") =>
       /\ depth_limit' = depth_limit
       /\ suppress_fns' = suppress_fns
       /\ heap' = heap]_vars

\* an object whose properties are not in sorted order has been shown with its
\* rows sorted, and it still holds them in the order it had
C24_Witness ==
  /\ pc = "done" /\ ~result.thrown
  /\ \E r1, r2 \in rows :
       /\ r1.obj = ValOf(Heap0, 7) /\ r2.obj = r1.obj
       /\ r1.idx = 1 /\ r1.key = Key(<<"B">>)
       /\ r2.idx = 4 /\ r2.key = Key(<<"b">>)
  /\ heap[7].kids[1].key = Key(<<"b">>) /\ heap[7].kids[2].key = Key(<<"B">>)

(***************************************************************************)
(* objectToHtml on values that are not error-like                          *)
(***************************************************************************)
\* what show_object(title, v) returns in the present state
ShowObjectResult(title, v) ==
  LET tv == [t |-> "Array", els |-> <<[title |-> title, value |-> v]>>]
  IN  Outcome(create_content(Cfg, RendersOfPass(Cfg, tv.els), tv))

\* C25: the error adaptation changes only error-like values: for every
\* value v that is not error-like (Array, Map, Set, plain object, primitive),
\* objectToHtml(v, {title}) gives the same fragment as show_object(title, v),
\* so v is rendered with its own kind, column heading and children.
C25_SameAsShowObject ==
  (pc = "done" /\ call.op = "objectToHtml" /\ ~isError(Heap0, call.arg)) =>
    result = ShowObjectResult(call.tv.els[1].title, call.arg)

\* the same for the plain objects among those values
C25_PlainObjects ==
  (pc = "done" /\ call.op = "objectToHtml" /\ ~isError(Heap0, call.arg)
     /\ isJsObject(call.arg)) =>
    result = ShowObjectResult(call.tv.els[1].title, call.arg)

\* the ids the controls of the loaded page hand to expand and collapse
HandlerArgs == {HandlerArg(result.val.s, i) : i \in HandlersOf(result.val.s)}

\* d2 is d with the content, collapse control and expand control of elName
\* set to vc, va, vr and every other element as it was
OnlyThree(d, d2, elName, vc, va, vr) ==
  LET c == getElementById(result.val.s, elName, "content")
      a == getElementById(result.val.s, elName, "down")
      r == getElementById(result.val.s, elName, "right")
  IN  /\ DOMAIN d2 = DOMAIN d
      /\ d2[c] = vc /\ d2[a] = va /\ d2[r] = vr
      /\ \A j \in DOMAIN d \ {c, a, r} : d2[j] = d[j]

\* C26: expand(id) shows id-content and id-arrow-down and hides
\* id-arrow-right, collapse(id) does the reverse; either changes the display
\* of these three elements only, and a second call changes nothing
C26_ThreeElements ==
  pc = "loaded" =>
    \A elName \in HandlerArgs :
      LET str == result.val.s
          e == expand(dom, str, elName)
          c == collapse(dom, str, elName)
      IN  /\ OnlyThree(dom, e, elName, "block", "block", "none")
          /\ OnlyThree(dom, c, elName, "none", "none", "block")
          /\ expand(e, str, elName) = e
          /\ collapse(c, str, elName) = c

\* a page where one node is expanded and another node is still collapsed
C26_Witness ==
  /\ pc = "loaded"
  /\ \E x, y \in HandlerArgs :
       /\ x # y
       /\ dom[getElementById(result.val.s, x, "content")] = "block"
       /\ dom[getElementById(result.val.s, x, "right")] = "none"
       /\ dom[getElementById(result.val.s, y, "content")] = "none"

(***************************************************************************)
(* Controls and content of a node                                          *)
(***************************************************************************)
Visible(display) == display # "none"

\* the expand controls of the page: one for every node that has controls
ControlNodes == {p \in ElementsOf(result.val.s) : IdOf(result.val.s, p).suffix = "right"}

\* the element of the node whose expand control is at p that make_table_row_from_prop
\* emits after it in the same row with the given suffix
OwnElement(p, suffix) ==
  Least({q \in ElementsOf(result.val.s) :
           /\ q > p
           /\ IdOf(result.val.s, q) = [name |-> IdOf(result.val.s, p).name, suffix |-> suffix]})

\* C27: for every node that has controls, in the loaded page and after any
\* clicks: its content is visible iff its collapse control is visible iff
\* its expand control is hidden.
C27_OneControlVisible ==
  pc = "loaded" =>
    \A p \in ControlNodes :
      /\ Visible(dom[OwnElement(p, "content")]) <=> Visible(dom[OwnElement(p, "down")])
      /\ Visible(dom[OwnElement(p, "down")]) <=> ~Visible(dom[p])

\* the same for the pages in which no two elements share an id
C27_UniqueIds ==
  (pc = "loaded" /\ \A p, q \in ElementsOf(result.val.s) :
                       IdOf(result.val.s, p) = IdOf(result.val.s, q) => p = q) =>
    \A p \in ControlNodes :
      /\ Visible(dom[OwnElement(p, "content")]) <=> Visible(dom[OwnElement(p, "down")])
      /\ Visible(dom[OwnElement(p, "down")]) <=> ~Visible(dom[p])

(***************************************************************************)
(* Controls and the container they address                                 *)
(***************************************************************************)
\* the node ids of the controls with the given direction in the string str
ControlIds(str, direction) ==
  {IdOf(str, p).name : p \in {q \in ElementsOf(str) : IdOf(str, q).suffix = direction}}

\* the node ids of the container a value cell consists of: the cell is a
\* string that starts with <div id="X-content"
ContainerIds(v) ==
  IF /\ typeOf(v) = "String" /\ Len(v.s) > 3
     /\ v.s[1] = Open("div") /\ v.s[3] = Attr("id=\"")
     /\ IdOf(v.s, 3).suffix = "content"
  THEN {IdOf(v.s, 3).name}
  ELSE {}

\* the three elements a handler of the string str addresses are in str
FindsAll(str) ==
  \A i \in HandlersOf(str) :
    /\ HandlerAction(str, i) \in {"expand", "collapse"}
    /\ \A suffix \in {"content", "down", "right"} :
         getElementById(str, HandlerArg(str, i), suffix) # 0

\* C28: no dangling controls: a row holds the control pair X-arrow-right and
\* X-arrow-down iff its value cell holds the container X-content, for Array,
\* Object, Map and Set children alike, so every expand(X) and collapse(X) of
\* the markup finds the three elements it addresses.
C28_NoDanglingControls ==
  /\ \A r \in rows :
       (~r.dropped /\ ~r.thrown) =>
         IF r.keyOnly THEN ElementsOf(r.out.s) = {}
         ELSE /\ ControlIds(r.tc, "right") = ContainerIds(r.vc)
              /\ ControlIds(r.tc, "down") = ContainerIds(r.vc)
              /\ ContainerIds(r.vc) \subseteq {r.name}
              /\ HasSub(r.out.s, r.tc \o <<Close("td")>> \o as_td(td_class, r.vc))
  /\ (pc = "done" /\ ~result.thrown /\ typeOf(result.val) = "String") => FindsAll(result.val.s)

\* one pass has made rows with controls and container for an Array, a Map
\* and a Set child, and a row without either for an empty container
C28_Witness ==
  /\ pc = "done" /\ ~result.thrown
  /\ \A kind \in {"Array", "Map", "Set"} :
       \E r \in rows :
         /\ r.val.t = kind /\ ~r.dropped /\ ~r.keyOnly
         /\ ContainerIds(r.vc) = {r.name} /\ ControlIds(r.tc, "right") = {r.name}
  /\ \E r \in rows :
       /\ ~r.dropped /\ ~r.keyOnly /\ r.val.t \in ExpandableKinds /\ ChildCount(r.val) = 0
       /\ ContainerIds(r.vc) = {} /\ ControlIds(r.tc, "right") = {}
  /\ HandlersOf(result.val.s) # {}

(***************************************************************************)
(* The options of objectToHtml                                             *)
(***************************************************************************)
\* the title the claim gives for the options of the call
ClaimedTitle ==
  IF call.options.absent \/ call.options.title = <<>>
  THEN <<"O", "b", "j", "e", "c", "t">>
  ELSE call.options.title

\* C29: objectToHtml(obj, options) uses only options.title ("Object" when
\* absent or empty): the fragment is the one show_object gives for that title
\* and the adapted obj under the process-wide depth limit and flag, whatever
\* options.depthLimit, options.hideFunctions and options.includeJavaScript
\* are, and the call leaves the depth limit and the flag unchanged.
C29_OnlyTitle ==
  [][/\ (pc = "idle" /\ pc' \in {"adapted", "done"}) =>
          /\ depth_limit' = depth_limit /\ suppress_fns' = suppress_fns
          /\ pc' = "adapted" => call'.tv.els[1].title = ClaimedTitle'
     /\ (pc = "adapted" /\ pc' = "done") =>
          /\ depth_limit' = depth_limit /\ suppress_fns' = suppress_fns
          /\ call' = call
          /\ result' = ShowObjectResult(ClaimedTitle, call.tv.els[1].value)]_vars

\* objectToHtml has returned a fragment with a nested table while the
\* options asked for depth limit 1 and the other value of the flag, with and
\* without a title
C29_Witness ==
  /\ pc = "done" /\ call.op = "objectToHtml" /\ ~result.thrown
  /\ ~call.options.absent
  /\ call.options.depthLimit.twice = 2 /\ depth_limit.twice > 2
  /\ call.options.hideFunctions # suppress_fns
  /\ call.options.title = <<>>
  /\ Count(result.val.s, Open("table")) >= 2
  /\ call.tv.els[1].title = <<"O", "b", "j", "e", "c", "t">>

(***************************************************************************)
(* Balance of the markup                                                   *)
(***************************************************************************)
RECURSIVE Match(_, _)
\* the open tags a (innermost last) met by the closing tags b (first first):
\* what is left of either, and whether a closing tag met another element
Match(a, b) ==
  IF a = <<>> \/ b = <<>> THEN [bad |-> FALSE, opens |-> a, closes |-> b]
  ELSE IF a[Len(a)] # Head(b) THEN [bad |-> TRUE, opens |-> a, closes |-> b]
  ELSE Match(SubSeq(a, 1, Len(a) - 1), Tail(b))

RECURSIVE Unmatched(_, _, _)
\* the closing tags without an opening tag and the opening tags of non-void
\* elements without a closing tag in str[lo..hi]
Unmatched(str, lo, hi) ==
  IF lo > hi THEN [bad |-> FALSE, opens |-> <<>>, closes |-> <<>>]
  ELSE IF lo = hi
       THEN IF str[lo].k = "open" /\ ~isEmptyElement(str[lo].v)
            THEN [bad |-> FALSE, opens |-> <<str[lo].v>>, closes |-> <<>>]
            ELSE IF str[lo].k = "close"
                 THEN [bad |-> FALSE, opens |-> <<>>, closes |-> <<str[lo].v>>]
                 ELSE [bad |-> FALSE, opens |-> <<>>, closes |-> <<>>]
  ELSE LET mid == (lo + hi) \div 2
           a   == Unmatched(str, lo, mid)
           b   == Unmatched(str, mid + 1, hi)
           m   == Match(a.opens, b.closes)
       IN  [bad    |-> a.bad \/ b.bad \/ m.bad,
            opens  |-> m.opens \o b.opens,
            closes |-> a.closes \o m.closes]

\* every non-void element opened in str is closed, in properly nested order
Balanced(str) ==
  LET u == Unmatched(str, 1, Len(str))
  IN  ~u.bad /\ u.opens = <<>> /\ u.closes = <<>>

\* C30: the output markup is balanced for every input: each non-void
\* element opened is closed, in properly nested order, including cells and
\* blocks whose content is null or undefined, rows dropped by function
\* suppression, and empty or truncated containers.
C30_Balanced ==
  (pc = "done" /\ ~result.thrown /\ typeOf(result.val) = "String") => Balanced(result.val.s)

\* a call returned a fragment
ReturnedFragment ==
  pc = "done" /\ call.op \in {"create_content", "show_object"}
    /\ ~result.thrown /\ typeOf(result.val) = "String"

\* a null or undefined value is handed to as_td as content
NullContent ==
  \E r \in rows :
    ~r.dropped /\ ~r.thrown /\ (isNullOrUndef(r.key) \/ (~r.keyOnly /\ isNullOrUndef(r.vc)))

\* the markup is balanced whenever no element is given null or undefined content
C30_BalancedUnlessNull ==
  (ReturnedFragment /\ ~NullContent) => Balanced(result.val.s)

====
